---- MODULE Spec2Model ----
(***************************************************************************)
(* Model of the price-tag sheet composer (src/App.tsx, first App           *)
(* component of the file):                                                  *)
(*   - paginatedResult, the greedy row-then-page flow (lines 197-286),     *)
(*     as a step machine over its loops;                                   *)
(*   - the undo/redo history of the app configuration (lines 48-100);      *)
(*   - the handlers of the product list (lines 148-194 and 289-322);       *)
(*   - the resize gesture of one PriceTag (src/unnamed/part_004:186-445).  *)
(* Lengths are integers in tenths of a centimetre (21.0 cm = 210), so the  *)
(* decimal constants of the source (0.4, 0.6, 7.5, 29.7) are exact.        *)
(* Indices are 0-based as in the source; products[i] of the source is      *)
(* products[i + 1] here.                                                   *)
(***************************************************************************)
EXTENDS Integers, Sequences, FiniteSets, TLC

VARIABLES
    products,               \* useState<Product[]>                (App.tsx:18)
    history,                \* useState<HistoryState<AppConfiguration>> (App.tsx:48)
    lastOp,                 \* the last history handler run, its input and the state it ran on
    pc,                     \* position inside paginatedResult
    globalIndex,            \* let globalIndex                    (App.tsx:214)
    pageIndex,              \* let pageIndex                      (App.tsx:215)
    resultPages,            \* const resultPages                  (App.tsx:211)
    resultOrientations,     \* const resultOrientations           (App.tsx:212)
    currentPageProducts,    \* const currentPageProducts          (App.tsx:226)
    currentY,               \* let currentY                       (App.tsx:227)
    rows,                   \* rows committed so far, one per pass of lines 272-278
    memo,                   \* value held by useMemo from the previous run
    run,                    \* number of the current evaluation of the memo body
    uuid,                   \* number of ids crypto.randomUUID has issued (InputForm.tsx:24)
    draggedProductId,       \* useState<string | null>           (App.tsx:289)
    saved,                  \* localStorage, the slot 'appConfig' (App.tsx:26 and 127)
    mounted,                \* the PriceTag instance is mounted
    tagOf,                  \* the product the PriceTag shows, or the preview tag
    isResizing,             \* useState<null | 'w' | 'h' | 'wh'> (part_004:207)
    isSnapped,              \* useState(false)                   (part_004:208)
    previewVisuals,         \* useState<Partial<TagVisuals> | null> (part_004:187)
    resizeStartRef,         \* useRef, .current                  (part_004:210)
    snapLocks,              \* useRef, .current                  (part_004:212-218)
    timers,                 \* callbacks setTimeout holds and clearTimeout has not removed
    listeners,              \* what the handlers window holds closed over (part_004:438-439)
    gesture                 \* the last event of the tag, what it computed and committed

appVars == <<uuid, draggedProductId, saved>>
tagVars == <<mounted, tagOf, isResizing, isSnapped, previewVisuals, resizeStartRef,
             snapLocks, timers, listeners, gesture>>

layoutVars == <<pc, globalIndex, pageIndex, resultPages, resultOrientations,
                currentPageProducts, currentY, rows, memo, run>>
vars == <<products, history, lastOp, pc, globalIndex, pageIndex, resultPages,
          resultOrientations, currentPageProducts, currentY, rows, memo, run,
          uuid, draggedProductId, saved, mounted, tagOf, isResizing, isSnapped,
          previewVisuals, resizeStartRef, snapLocks, timers, listeners, gesture>>

----------------------------------------------------------------------------
(* Bounds of the model *)

MaxItems == 3           \* longest product list drawn by Init
MaxOverride == 2        \* page indices 0 .. MaxOverride-1 may carry an override

----------------------------------------------------------------------------
(* Constants of paginatedResult, in tenths of a centimetre *)

A4_WIDTH_CM == 210
A4_HEIGHT_CM == 297
PADDING_TOP_CM == 10
PADDING_LEFT_CM == 0
GAP_X_CM == 4
GAP_Y_CM == 6
FALLBACK_W == 100
FALLBACK_H == 80

Orientations == {"portrait", "landscape"}
Undefined == "undefined"

(* a || b of JavaScript on numbers: 0 (and a missing value, modelled as 0) is falsy *)
OrNum(a, b) == IF a # 0 THEN a ELSE b

(* a || b on optional strings *)
OrStr(a, b) == IF a # Undefined THEN a ELSE b

Max(a, b) == IF a >= b THEN a ELSE b

(* appConfig.pageOrientations?.[pageIndex] *)
OverrideAt(cfg, i) ==
    IF i \in DOMAIN cfg.pageOrientations THEN cfg.pageOrientations[i] ELSE Undefined

(* the global orientation taken before the override of the page *)
OrientationOf_GlobalFirst(cfg, i) ==
    OrStr(cfg.paperOrientation, OrStr(OverrideAt(cfg, i), "portrait"))

(* line 219 *)
OrientationOf(cfg, i) == OrStr(OverrideAt(cfg, i), OrStr(cfg.paperOrientation, "portrait"))

(* lines 222-224 *)
PageWidthOf(orientation) == IF orientation = "landscape" THEN A4_HEIGHT_CM ELSE A4_WIDTH_CM
PageHeightOf(orientation) == IF orientation = "landscape" THEN A4_WIDTH_CM ELSE A4_HEIGHT_CM

(* lines 208-209 *)
DefaultW(cfg) == OrNum(cfg.visuals.tagWidth, FALLBACK_W)
DefaultH(cfg) == OrNum(cfg.visuals.tagHeight, FALLBACK_H)

(* p.customVisuals?.[field]: a product made by the input form has no
   customVisuals, and a field an object lacks reads as a missing value *)
CustomOf(p, field) ==
    IF "customVisuals" \in DOMAIN p /\ field \in DOMAIN p.customVisuals
    THEN p.customVisuals[field]
    ELSE 0

(* lines 241-242 *)
ItemW(p, cfg) == OrNum(CustomOf(p, "tagWidth"), DefaultW(cfg))
ItemH(p, cfg) == OrNum(CustomOf(p, "tagHeight"), DefaultH(cfg))

(* the row limit reduced by a padding on both sides *)
FitsInRow_Padded(rowWidth, w, gap, pageWidth) ==
    rowWidth + w + gap <= pageWidth - 2 * PADDING_TOP_CM

(* line 246: does the item fit in the row *)
FitsInRow(rowWidth, w, gap, pageWidth) == rowWidth + w + gap <= pageWidth

(* lines 238-254: the build-row loop, from the state (tempIndex, rowWidth, rowHeight, rowCount) *)
RECURSIVE BuildRow(_, _, _, _, _, _, _)
BuildRow(prods, cfg, pageWidth, tempIndex, rowWidth, rowHeight, rowCount) ==
    IF tempIndex < Len(prods)
    THEN LET p == prods[tempIndex + 1]
             w == ItemW(p, cfg)
             h == ItemH(p, cfg)
             gap == IF rowCount > 0 THEN GAP_X_CM ELSE 0
         IN  IF FitsInRow(rowWidth, w, gap, pageWidth)
             THEN BuildRow(prods, cfg, pageWidth, tempIndex + 1,
                           rowWidth + w + gap, Max(rowHeight, h), rowCount + 1)
             ELSE [tempIndex |-> tempIndex, rowWidth |-> rowWidth,
                   rowHeight |-> rowHeight, rowCount |-> rowCount]
    ELSE [tempIndex |-> tempIndex, rowWidth |-> rowWidth,
          rowHeight |-> rowHeight, rowCount |-> rowCount]

(* the safety check left out *)
ForceRow_Missing(prods, cfg, r) == r

(* lines 256-262: a single item wider than the page is forced into the row *)
ForceRow(prods, cfg, r) ==
    IF r.rowCount = 0 /\ r.tempIndex < Len(prods)
    THEN [r EXCEPT !.rowHeight = ItemH(prods[r.tempIndex + 1], cfg),
                   !.rowCount = 1,
                   !.tempIndex = r.tempIndex + 1]
    ELSE r

(* the forced item restarts the build-row loop instead of ending the row *)
AttemptRow_ForceThenContinue(prods, cfg, pageWidth, gIndex) ==
    LET b == BuildRow(prods, cfg, pageWidth, gIndex, PADDING_LEFT_CM, 0, 0)
        r == ForceRow(prods, cfg, b)
    IN  IF b.rowCount = 0
        THEN BuildRow(prods, cfg, pageWidth, r.tempIndex, PADDING_LEFT_CM, r.rowHeight, r.rowCount)
        ELSE r

(* lines 232-262: the row attempted from the cursor on a page of the given width *)
AttemptRow(prods, cfg, pageWidth, gIndex) ==
    ForceRow(prods, cfg, BuildRow(prods, cfg, pageWidth, gIndex, PADDING_LEFT_CM, 0, 0))

(* line 265 *)
GapY(pageProducts) == IF Len(pageProducts) > 0 THEN GAP_Y_CM ELSE 0

(* the first row of a page refused as well when it is too tall *)
PageFull_AlsoFirstRow(pageProducts, y, rowHeight, pageHeight) ==
    y + rowHeight + GapY(pageProducts) > pageHeight

(* the page closed a padding before its lower edge *)
PageFull_Padded(pageProducts, y, rowHeight, pageHeight) ==
    Len(pageProducts) > 0 /\ y + rowHeight + GapY(pageProducts) > pageHeight - PADDING_TOP_CM

(* line 266: the row does not fit vertically on a page that already has content *)
PageFull(pageProducts, y, rowHeight, pageHeight) ==
    Len(pageProducts) > 0 /\ y + rowHeight + GapY(pageProducts) > pageHeight

(* a loop bound of i <= tempIndex instead of i < tempIndex *)
AddRowItems_Inclusive(pageProducts, prods, from, to) ==
    pageProducts \o SubSeq(prods, from + 1, IF to < Len(prods) THEN to + 1 ELSE to)

(* lines 272-274 *)
AddRowItems(pageProducts, prods, from, to) == pageProducts \o SubSeq(prods, from + 1, to)

----------------------------------------------------------------------------
(* Inputs of the layout: item lists and configurations *)

(* per-item overrides <<tagWidth, tagHeight>>; <<0, 0>> is an item without
   customVisuals.
   Two items of 140 fit side by side on a landscape page only,
   220 is wider than a portrait page and narrower than a landscape one,
   300 is wider and taller than either page. *)
ItemSizes == { <<0, 0>>, <<140, 140>>, <<220, 140>>, <<300, 300>> }

MkProduct(i, size) ==
    IF size = <<0, 0>>
    THEN [id |-> i]
    ELSE [id |-> i, customVisuals |-> [tagWidth |-> size[1], tagHeight |-> size[2]]]

MkProducts(sizes) == [i \in 1..Len(sizes) |-> MkProduct(i, sizes[i])]

(* the scenario list: 5 items without overrides *)
ScenarioSizes == [i \in 1..5 |-> <<0, 0>>]

ProductLists ==
    { MkProducts(s) : s \in UNION { [1..n -> ItemSizes] : n \in 0..MaxItems } }
    \cup { MkProducts(ScenarioSizes) }

(* sparse maps from page index to orientation *)
OrientationMaps == UNION { [D -> Orientations] : D \in SUBSET (0..(MaxOverride - 1)) }

MkConfig(w, h, ts, paper, pageOr) ==
    [visuals |-> [fontScale |-> 100, tagWidth |-> w, tagHeight |-> h, textScales |-> ts],
     paperOrientation |-> paper,
     pageOrientations |-> pageOr]

(* constants.ts:26-50, the fields the model keeps; the record keeps the
   field order of the source object; fontScale is in hundredths *)
DEFAULT_CONFIG == MkConfig(100, 75, <<>>, "portrait", <<>>)

LayoutConfigs ==
    { MkConfig(wh[1], wh[2], <<>>, paper, po) :
        wh \in { <<0, 0>>, <<100, 75>> },
        paper \in {Undefined, "portrait", "landscape"},
        po \in OrientationMaps }

appConfig == history.present

(* lastOp before any handler has run *)
NoOp(h) == [op |-> "none", next |-> h.present, before |-> h,
            prevOp |-> "none", prevBefore |-> h,
            products |-> products, prevProducts |-> products]

(* lastOp after handler op has run on the current history with input next *)
Ran(op, next) == [op |-> op, next |-> next, before |-> history,
                  prevOp |-> lastOp.op, prevBefore |-> lastOp.before,
                  products |-> products, prevProducts |-> lastOp.products]

(* localStorage.getItem returns null: nothing was stored *)
Absent == [kind |-> "absent"]

(* null where the value is otherwise an object *)
Null == [null |-> TRUE]

(* null where the value is otherwise a number *)
NoNumber == -1

(* the id of the tag of the configuration tab (App.tsx:570), no product's id *)
PREVIEW_ID == 0

(* part_004:216-217 *)
NoLock == [active |-> FALSE, anchor |-> NoNumber, timer |-> NoNumber,
           ignoreAnchor |-> NoNumber]

(* gesture before any event of the tag: ev the last event, n the gestures
   started, ended whether the last gesture saw its pointer-up; of the last
   pointer-move, raw and reported are the argument and the result of
   applySnap (in a proportional resize raw is the width before the minimum
   is applied), pulledFrom the anchor of the active lock it broke and
   ignoreBefore the ignoreAnchor it found; computed is the updates of the
   last pointer-move of the gesture and committed what the pointer-up handed
   to onVisualChange; pinned is the grid multiple the value was pinned to
   and has not left, timedOut whether the timer of that lock has fired;
   released is the multiple the last pointer-move left with the timer not
   fired, expired the one it left with the timer fired; free tells that the
   last pointer-move found no lock active on its axis; lastExpired is the
   anchor of the lock of the gesture's axis the timer released last in the
   gesture, lastReleased the anchor of the lock released last by the timer
   or by a pull; products
   and history are the store the last pointer-move found *)
NoGesture == [ev |-> "none", n |-> 0, ended |-> FALSE,
              raw |-> NoNumber, reported |-> NoNumber,
              pulledFrom |-> NoNumber, ignoreBefore |-> NoNumber,
              computed |-> Null, committed |-> Null,
              pinned |-> NoNumber, timedOut |-> FALSE,
              released |-> NoNumber, expired |-> NoNumber,
              free |-> FALSE, lastExpired |-> NoNumber, lastReleased |-> NoNumber,
              products |-> <<>>, history |-> Null]

(* gesture after event ev that is no pointer-move of a gesture in progress:
   what gesture tells of the last pointer-move alone is forgotten *)
Event(ev) == [gesture EXCEPT !.ev = ev, !.raw = NoNumber, !.reported = NoNumber,
                             !.pulledFrom = NoNumber, !.ignoreBefore = NoNumber,
                             !.released = NoNumber, !.expired = NoNumber,
                             !.free = FALSE]

(* App.tsx:289 and InputForm.tsx:24 before any product was made *)
AppInit ==
    /\ uuid = 0
    /\ draggedProductId = NoNumber
    /\ saved = Absent

(* part_004:187 and 207-218: the state a PriceTag is constructed with *)
TagState ==
    /\ isResizing = "null"
    /\ isSnapped = FALSE
    /\ previewVisuals = Null
    /\ resizeStartRef = Null
    /\ snapLocks = [w |-> NoLock, h |-> NoLock]
    /\ timers = {}
    /\ listeners = Null
    /\ gesture = NoGesture

(* no tag on screen *)
NoTag ==
    /\ mounted = FALSE
    /\ tagOf = PREVIEW_ID
    /\ TagState

----------------------------------------------------------------------------
(* paginatedResult as a step machine *)

EmptyResult == [pages |-> <<>>, orientations |-> <<>>]

(* pageIndex kept from the previous evaluation instead of declared afresh *)
Begin_KeepsPageIndex ==
    /\ pc = "start"
    /\ IF Len(products) = 0
       THEN /\ pc' = "done"
            /\ resultPages' = <<>>
            /\ resultOrientations' = <<>>
            /\ UNCHANGED <<globalIndex, pageIndex>>
       ELSE /\ pc' = "outer"
            /\ resultPages' = <<>>
            /\ resultOrientations' = <<>>
            /\ globalIndex' = 0
            /\ UNCHANGED pageIndex
    /\ rows' = <<>>
    /\ UNCHANGED <<appVars, tagVars, products, history, lastOp, currentPageProducts, currentY, memo, run>>

(* line 198 and lines 211-215: early return, or the declarations of the locals *)
Begin ==
    /\ pc = "start"
    /\ IF Len(products) = 0
       THEN /\ pc' = "done"
            /\ resultPages' = <<>>
            /\ resultOrientations' = <<>>
            /\ UNCHANGED <<globalIndex, pageIndex>>
       ELSE /\ pc' = "outer"
            /\ resultPages' = <<>>
            /\ resultOrientations' = <<>>
            /\ globalIndex' = 0
            /\ pageIndex' = 0
    /\ rows' = <<>>
    /\ UNCHANGED <<appVars, tagVars, products, history, lastOp, currentPageProducts, currentY, memo, run>>

(* lines 218-227: the outer loop opens a page *)
NewPage ==
    /\ pc = "outer"
    /\ globalIndex < Len(products)
    /\ resultOrientations' = Append(resultOrientations, OrientationOf(appConfig, pageIndex))
    /\ currentPageProducts' = <<>>
    /\ currentY' = PADDING_TOP_CM
    /\ pc' = "inner"
    /\ UNCHANGED <<appVars, tagVars, products, history, lastOp, globalIndex, pageIndex, resultPages, rows, memo, run>>

(* the page being filled *)
CurrentOrientation == resultOrientations[Len(resultOrientations)]
PAGE_WIDTH == PageWidthOf(CurrentOrientation)
PAGE_HEIGHT == PageHeightOf(CurrentOrientation)

(* the row the current pass of the inner loop builds *)
CurrentRow == AttemptRow(products, appConfig, PAGE_WIDTH, globalIndex)

(* lines 230-278, the pass commits its row *)
CommitRow ==
    /\ pc = "inner"
    /\ globalIndex < Len(products)
    /\ LET r == CurrentRow
           gapY == GapY(currentPageProducts)
       IN  /\ ~PageFull(currentPageProducts, currentY, r.rowHeight, PAGE_HEIGHT)
           /\ currentPageProducts' =
                  AddRowItems(currentPageProducts, products, globalIndex, r.tempIndex)
           /\ currentY' = currentY + r.rowHeight + gapY
           /\ globalIndex' = r.tempIndex
           /\ rows' = Append(rows, [page |-> pageIndex, from |-> globalIndex,
                                    to |-> r.tempIndex, height |-> r.rowHeight])
    /\ UNCHANGED <<appVars, tagVars, products, history, lastOp, pc, pageIndex, resultPages, resultOrientations, memo, run>>

(* the cursor moved past the row that did not fit *)
BreakPage_Advances ==
    /\ pc = "inner"
    /\ globalIndex < Len(products)
    /\ PageFull(currentPageProducts, currentY, CurrentRow.rowHeight, PAGE_HEIGHT)
    /\ pc' = "close"
    /\ globalIndex' = CurrentRow.tempIndex
    /\ UNCHANGED <<appVars, tagVars, products, history, lastOp, pageIndex, resultPages,
                   resultOrientations, currentPageProducts, currentY, rows, memo, run>>

(* lines 230-269, the pass finds the page full and breaks out of the inner loop *)
BreakPage ==
    /\ pc = "inner"
    /\ globalIndex < Len(products)
    /\ PageFull(currentPageProducts, currentY, CurrentRow.rowHeight, PAGE_HEIGHT)
    /\ pc' = "close"
    /\ UNCHANGED <<appVars, tagVars, products, history, lastOp, globalIndex, pageIndex, resultPages,
                   resultOrientations, currentPageProducts, currentY, rows, memo, run>>

(* line 230: the inner loop ends with the list *)
InnerExit ==
    /\ pc = "inner"
    /\ globalIndex >= Len(products)
    /\ pc' = "close"
    /\ UNCHANGED <<appVars, tagVars, products, history, lastOp, globalIndex, pageIndex, resultPages,
                   resultOrientations, currentPageProducts, currentY, rows, memo, run>>

(* lines 281-282 *)
ClosePage ==
    /\ pc = "close"
    /\ resultPages' = Append(resultPages, currentPageProducts)
    /\ pageIndex' = pageIndex + 1
    /\ pc' = "outer"
    /\ UNCHANGED <<appVars, tagVars, products, history, lastOp, globalIndex, resultOrientations,
                   currentPageProducts, currentY, rows, memo, run>>

(* lines 218 and 285: the outer loop ends and the result is returned *)
Return ==
    /\ pc = "outer"
    /\ globalIndex >= Len(products)
    /\ pc' = "done"
    /\ UNCHANGED <<appVars, tagVars, products, history, lastOp, globalIndex, pageIndex, resultPages,
                   resultOrientations, currentPageProducts, currentY, rows, memo, run>>

(* the value the memo returns *)
Result == [pages |-> resultPages, orientations |-> resultOrientations]

(* line 197/286: the memo body is evaluated again for a new, equal products
   array; useMemo holds the previous value until the body returns *)
Rerun ==
    /\ pc = "done"
    /\ run = 1
    /\ memo' = Result
    /\ run' = run + 1
    /\ pc' = "start"
    /\ UNCHANGED <<appVars, tagVars, products, history, lastOp, globalIndex, pageIndex, resultPages,
                   resultOrientations, currentPageProducts, currentY, rows>>

LayoutInit ==
    /\ products \in ProductLists
    /\ \E cfg \in LayoutConfigs : history = [past |-> <<>>, present |-> cfg, future |-> <<>>]
    /\ lastOp = NoOp(history)
    /\ pc = "start"
    /\ globalIndex = 0
    /\ pageIndex = 0
    /\ resultPages = <<>>
    /\ resultOrientations = <<>>
    /\ currentPageProducts = <<>>
    /\ currentY = 0
    /\ rows = <<>>
    /\ memo = EmptyResult
    /\ run = 1
    /\ uuid = Len(products)
    /\ draggedProductId = NoNumber
    /\ saved = Absent
    /\ NoTag

(* the steps of one evaluation *)
LayoutRun ==
    \/ Begin
    \/ NewPage
    \/ CommitRow
    \/ BreakPage
    \/ InnerExit
    \/ ClosePage
    \/ Return

LayoutNext ==
    \/ LayoutRun
    \/ Rerun

SpecLayout == LayoutInit /\ [][LayoutNext]_vars

(* one evaluation, run to completion: the loops are synchronous code, so
   every enabled step is eventually taken *)
SpecLayoutFair == LayoutInit /\ [][LayoutRun]_vars /\ WF_vars(LayoutRun)

----------------------------------------------------------------------------
(* Properties of the layout *)

RECURSIVE Flatten(_)
Flatten(pages) == IF pages = <<>> THEN <<>> ELSE Head(pages) \o Flatten(Tail(pages))

Scenario == MkProducts(ScenarioSizes)

(* C1: when the layout has returned, the pages concatenated in page order are
   exactly the input list: same items, same order, each item once. *)
C1_OrderPreserved == pc = "done" => Flatten(resultPages) = products

(* several pages, several items on one of them *)
C1_Witness ==
    /\ pc = "done"
    /\ Len(products) = 3
    /\ Len(resultPages) = 2
    /\ Len(resultPages[1]) = 2

(* C2: every pass of the page-filling loop either advances the cursor or
   closes a page that holds at least one item, and every evaluation that has
   started returns. *)
C2_Terminates ==
    /\ [][(pc = "inner" /\ globalIndex < Len(products))
            => \/ globalIndex' > globalIndex
               \/ pc' = "close" /\ Len(currentPageProducts) > 0]_vars
    /\ (pc = "start") ~> (pc = "done")

(* a returned layout of a list with an item wider and taller than any page
   next to an item with zero or missing sizes *)
C2_Witness ==
    /\ pc = "done"
    /\ \E i, j \in 1..Len(products) :
          /\ ItemW(products[i], appConfig) = 300
          /\ ItemH(products[i], appConfig) = 300
          /\ "customVisuals" \notin DOMAIN products[j]
    /\ appConfig.visuals.tagWidth = 0
    /\ Len(resultPages) >= 2

(* the width limit of the page row k was placed on *)
UsableWidthOfRow(k) ==
    PageWidthOf(resultOrientations[rows[k].page + 1]) - PADDING_LEFT_CM

Oversized(i, k) == ItemW(products[i + 1], appConfig) > UsableWidthOfRow(k)

(* C3: a row holding an item wider than the usable width of its page holds
   only that item; rows are consecutive, so the row before it ends at the
   item before it and the item after it starts the next row. *)
C3_OversizedAlone ==
    \A k \in 1..Len(rows) :
        /\ rows[k].from = (IF k = 1 THEN 0 ELSE rows[k - 1].to)
        /\ \A i \in rows[k].from..(rows[k].to - 1) :
              Oversized(i, k) => rows[k].to = rows[k].from + 1

(* an oversized item between two other rows *)
C3_Witness ==
    /\ pc = "done"
    /\ \E k \in 2..(Len(rows) - 1) :
          /\ Oversized(rows[k].from, k)
          /\ ~Oversized(rows[k + 1].from, k + 1)
          /\ rows[k + 1].page = rows[k].page

RECURSIVE SumWidths(_, _)
SumWidths(from, to) ==
    IF from >= to THEN 0
    ELSE ItemW(products[from + 1], appConfig) + SumWidths(from + 1, to)

(* item widths of row k plus the gaps between them *)
RowExtent(k) ==
    SumWidths(rows[k].from, rows[k].to) + GAP_X_CM * (rows[k].to - rows[k].from - 1)

RowsOfPage(pg) == { k \in 1..Len(rows) : rows[k].page = pg }

RECURSIVE SumHeights(_)
SumHeights(ks) ==
    IF ks = {} THEN 0
    ELSE LET k == CHOOSE x \in ks : TRUE IN rows[k].height + SumHeights(ks \ {k})

(* row heights of page pg plus the gaps between them *)
PageExtent(pg) ==
    SumHeights(RowsOfPage(pg)) + GAP_Y_CM * (Cardinality(RowsOfPage(pg)) - 1)

(* C4: the placed content stays inside the page minus a symmetric padding on
   each axis: rows of two or more items in width, pages of two or more rows
   (none of them a forced one) in height. *)
C4_InsideSymmetricPadding ==
    /\ \A k \in 1..Len(rows) :
          rows[k].to - rows[k].from >= 2 =>
              RowExtent(k) <= PageWidthOf(resultOrientations[rows[k].page + 1])
                                - 2 * PADDING_LEFT_CM
    /\ \A k \in 1..Len(rows) :
          /\ Cardinality(RowsOfPage(rows[k].page)) >= 2
          /\ \A j \in RowsOfPage(rows[k].page) : ~Oversized(rows[j].from, j)
          => PageExtent(rows[k].page) <=
                  PageHeightOf(resultOrientations[rows[k].page + 1]) - 2 * PADDING_TOP_CM

ScenarioRun ==
    /\ pc = "done"
    /\ products = Scenario
    /\ appConfig = DEFAULT_CONFIG

(* C5 as stated: in the scenario the first row holds 2 items and the layout
   returns a second page. *)
C5_SecondPage ==
    ScenarioRun => /\ rows[1].to - rows[1].from = 2
                   /\ Len(resultPages) >= 2

(* C5: 5 items of 10 x 7.5 on a portrait page: the first row holds 2 items
   and the rows of 2, 2 and 1 items all fit on the first page, which is the
   only page returned. *)
C5_OnePage ==
    ScenarioRun => /\ rows[1].to - rows[1].from = 2
                   /\ Len(rows) = 3
                   /\ Len(resultPages) = 1
                   /\ Len(resultPages[1]) = 5
                   /\ resultOrientations = <<"portrait">>

C5_Witness == ScenarioRun /\ run = 1

(* C6: a second evaluation on the same item list and configuration returns
   the same pages and orientations as the first, and no step of an
   evaluation changes the item list or the history. *)
C6_Pure ==
    /\ [](run = 2 /\ pc = "done" => Result = memo)
    /\ [][products' = products /\ history' = history]_vars

(* a second evaluation that returned pages of different orientations *)
C6_Witness ==
    /\ run = 2
    /\ pc = "done"
    /\ Len(resultPages) >= 2
    /\ resultOrientations[1] # resultOrientations[2]

(* the orientation the configuration gives page i *)
ExpectedOrientation(i) ==
    IF i \in DOMAIN appConfig.pageOrientations THEN appConfig.pageOrientations[i]
    ELSE IF appConfig.paperOrientation \in Orientations THEN appConfig.paperOrientation
    ELSE "portrait"

(* the size of the sheet of page i *)
SheetWidth(i) == IF ExpectedOrientation(i) = "landscape" THEN A4_HEIGHT_CM ELSE A4_WIDTH_CM
SheetHeight(i) == IF ExpectedOrientation(i) = "landscape" THEN A4_WIDTH_CM ELSE A4_HEIGHT_CM

(* items from (0-based) up to to, laid side by side, fit in width w *)
FitsUpTo(from, to, w) ==
    PADDING_LEFT_CM + SumWidths(from, to) + GAP_X_CM * (to - from - 1) <= w

(* where a row that starts at item from ends when filled to width w: it
   takes every item that fits, and a first item that does not fit alone *)
RowEndAt(from, w) ==
    IF ~FitsUpTo(from, from + 1, w) THEN from + 1
    ELSE CHOOSE to \in (from + 1)..Len(products) :
            /\ FitsUpTo(from, to, w)
            /\ to < Len(products) => ~FitsUpTo(from, to + 1, w)

(* the height of that row: the height of its tallest item *)
RowHeightAt(from, w) ==
    LET hs == { ItemH(products[i + 1], appConfig) : i \in from..(RowEndAt(from, w) - 1) }
    IN  CHOOSE h \in hs : \A x \in hs : x <= h

(* row k is filled to width w *)
RowFilledTo(k, w) ==
    /\ rows[k].to = RowEndAt(rows[k].from, w)
    /\ rows[k].height = RowHeightAt(rows[k].from, w)

(* the first row of page pg *)
FirstRowOfPage(pg) == CHOOSE k \in RowsOfPage(pg) : \A j \in RowsOfPage(pg) : k <= j

(* page pg of width w is filled to height h: its rows fit in h unless it
   holds a single row, and the row that starts at the first item of the next
   page, filled to w, would not have fitted *)
PageFilledTo(pg, w, h) ==
    /\ Cardinality(RowsOfPage(pg)) >= 2 => PADDING_TOP_CM + PageExtent(pg) <= h
    /\ pg + 1 < Len(resultPages)
       => PADDING_TOP_CM + PageExtent(pg) + GAP_Y_CM
            + RowHeightAt(rows[FirstRowOfPage(pg + 1)].from, w) > h

(* C20: the layout returns one orientation per page; the orientation of page
   i is the override stored for i if there is one, else the global paper
   orientation, else portrait; a landscape page is filled with width 29.7
   and height 21, a portrait page with width 21 and height 29.7. *)
C20_OrientationPerPage ==
    pc = "done" =>
        /\ Len(resultOrientations) = Len(resultPages)
        /\ \A i \in 0..(Len(resultPages) - 1) :
              /\ resultOrientations[i + 1] = ExpectedOrientation(i)
              /\ PageFilledTo(i, SheetWidth(i), SheetHeight(i))
        /\ \A k \in 1..Len(rows) : RowFilledTo(k, SheetWidth(rows[k].page))

(* a layout with no global orientation whose first page is portrait by
   default and holds two rows, and whose second page is landscape by its
   override *)
C20_Witness ==
    /\ pc = "done"
    /\ appConfig.paperOrientation = Undefined
    /\ DOMAIN appConfig.pageOrientations = {1}
    /\ resultOrientations = <<"portrait", "landscape">>
    /\ Cardinality(RowsOfPage(0)) >= 2

(* the width and the height of the page of index pg as it was laid out *)
WidthOfPage(pg) == PageWidthOf(resultOrientations[pg + 1])
HeightOfPage(pg) == PageHeightOf(resultOrientations[pg + 1])

(* C24: the flow is greedy-maximal: a row that ends before the last item
   would be wider than the usable width of its page with the next item and
   one gap added; a page that ends before the last item has no room left for
   one gap and the row built, at its width, from the first item it does not
   hold. *)
C24_GreedyMaximal ==
    pc = "done" =>
        /\ \A k \in 1..Len(rows) :
              rows[k].to < Len(products)
              => RowExtent(k) + GAP_X_CM + ItemW(products[rows[k].to + 1], appConfig)
                    > WidthOfPage(rows[k].page) - PADDING_LEFT_CM
        /\ \A pg \in 0..(Len(resultPages) - 2) :
              GAP_Y_CM + RowHeightAt(rows[FirstRowOfPage(pg + 1)].from, WidthOfPage(pg))
                > HeightOfPage(pg) - (PADDING_TOP_CM + PageExtent(pg))

(* a first page of two rows, the first of two items, that ends before the
   last item, followed by a page of the other orientation *)
C24_Witness ==
    /\ pc = "done"
    /\ Len(resultPages) >= 2
    /\ Cardinality(RowsOfPage(0)) = 2
    /\ rows[1].to - rows[1].from = 2
    /\ resultOrientations[1] # resultOrientations[2]

(* the last row of page pg *)
LastRowOfPage(pg) == CHOOSE k \in RowsOfPage(pg) : \A j \in RowsOfPage(pg) : j <= k

(* the item the cursor was at when page pg was closed *)
CursorAfterPage(pg) == rows[LastRowOfPage(pg)].to

(* where the row ends that was built on page pg, at its width, and abandoned *)
AbandonedRowEnd(pg) ==
    AttemptRow(products, appConfig, WidthOfPage(pg), CursorAfterPage(pg)).tempIndex

(* C25 as stated: the first row of the page after an abandoned row starts at
   the first item of the abandoned row and holds exactly its items, whatever
   the orientations of the two pages. *)
C25_SameItems ==
    pc = "done" =>
        \A pg \in 0..(Len(resultPages) - 2) :
            LET k == FirstRowOfPage(pg + 1)
            IN  /\ rows[k].from = CursorAfterPage(pg)
                /\ rows[k].to = AbandonedRowEnd(pg)

(* C25: when a row is abandoned the cursor stays and the first row of the
   next page is built again from the first item of the abandoned row, at the
   width of the next page: it holds exactly the items of the abandoned row
   when the two pages have the same orientation. *)
C25_RowRebuilt ==
    pc = "done" =>
        \A pg \in 0..(Len(resultPages) - 2) :
            LET k == FirstRowOfPage(pg + 1)
            IN  /\ rows[k].from = CursorAfterPage(pg)
                /\ rows[k].to = RowEndAt(rows[k].from, WidthOfPage(pg + 1))
                /\ resultOrientations[pg + 1] = resultOrientations[pg + 2]
                   => rows[k].to = AbandonedRowEnd(pg)

(* a row of two items abandoned on a landscape page; on the portrait page
   that follows its first item makes a row alone *)
C25_Witness ==
    /\ pc = "done"
    /\ Len(resultPages) >= 2
    /\ resultOrientations[1] = "landscape"
    /\ resultOrientations[2] = "portrait"
    /\ AbandonedRowEnd(0) = CursorAfterPage(0) + 2
    /\ rows[FirstRowOfPage(1)].to = CursorAfterPage(0) + 1

(* C26: every page the layout closes holds at least one item, the first row
   of a page being accepted whatever its height, so the layout returns no
   more pages than there are items; an empty list gives no pages and no
   orientations. *)
C26_NoEmptyPage ==
    /\ \A i \in 1..Len(resultPages) : Len(resultPages[i]) >= 1
    /\ pc = "done"
       => /\ Len(resultPages) <= Len(products)
          /\ products = <<>> => resultPages = <<>> /\ resultOrientations = <<>>

(* as many pages as items, one of them holding an item taller than the page *)
C26_Witness ==
    /\ pc = "done"
    /\ Len(products) >= 2
    /\ Len(resultPages) = Len(products)
    /\ \E k \in 1..Len(rows) : rows[k].height > HeightOfPage(rows[k].page)

----------------------------------------------------------------------------
(* paginatedResult as a function of (products, appConfig), for the handlers
   that read the rendered pages *)

(* lines 230-279: the inner loop from cursor g on a page that holds pageProducts *)
RECURSIVE FillPage(_, _, _, _, _, _, _)
FillPage(prods, cfg, pageWidth, pageHeight, g, pageProducts, y) ==
    IF g < Len(prods)
    THEN LET r == AttemptRow(prods, cfg, pageWidth, g)
         IN  IF PageFull(pageProducts, y, r.rowHeight, pageHeight)
             THEN [globalIndex |-> g, page |-> pageProducts]
             ELSE FillPage(prods, cfg, pageWidth, pageHeight, r.tempIndex,
                           AddRowItems(pageProducts, prods, g, r.tempIndex),
                           y + r.rowHeight + GapY(pageProducts))
    ELSE [globalIndex |-> g, page |-> pageProducts]

(* lines 218-283: the outer loop from cursor g and page index i *)
RECURSIVE PagesFrom(_, _, _, _)
PagesFrom(prods, cfg, g, i) ==
    IF g < Len(prods)
    THEN LET o == OrientationOf(cfg, i)
             f == FillPage(prods, cfg, PageWidthOf(o), PageHeightOf(o), g, <<>>,
                           PADDING_TOP_CM)
         IN  <<[items |-> f.page, orientation |-> o]>>
                 \o PagesFrom(prods, cfg, f.globalIndex, i + 1)
    ELSE <<>>

(* lines 197-286 *)
paginatedResult(prods, cfg) ==
    LET ps == PagesFrom(prods, cfg, 0, 0)
    IN  [pages |-> [i \in 1..Len(ps) |-> ps[i].items],
         orientations |-> [i \in 1..Len(ps) |-> ps[i].orientation]]

(* the step machine and the function agree on the result *)
StepsAgreeWithFunction == pc = "done" => Result = paginatedResult(products, appConfig)

----------------------------------------------------------------------------
(* Undo/redo history of the app configuration (App.tsx:48-100) *)

MaxHist == 3            \* Spec: setAppConfig is offered while past is shorter than this

HISTORY_LIMIT == 50

(* the keys and values the text-scale and resize handlers are given *)
TextIds == {"name", "price"}
TextScaleValues == {11, 12}
TagWidths == {100, 120}

(* the entries of an object with integer keys, in the order JSON.stringify
   lists them: ascending keys *)
RECURSIVE OrderedEntries(_)
OrderedEntries(obj) ==
    IF DOMAIN obj = {} THEN <<>>
    ELSE LET k == CHOOSE x \in DOMAIN obj : \A y \in DOMAIN obj : x <= y
         IN  <<<<k, obj[k]>>>> \o OrderedEntries([y \in DOMAIN obj \ {k} |-> obj[y]])

(* JSON.stringify of a configuration: the fields in the order they are
   stored (textScales in insertion order), a missing field left out *)
JSONstringify(cfg) ==
    << <<"fontScale", cfg.visuals.fontScale>>,
       <<"tagWidth", cfg.visuals.tagWidth>>,
       <<"tagHeight", cfg.visuals.tagHeight>>,
       <<"textScales", cfg.visuals.textScales>> >>
    \o (IF cfg.paperOrientation = Undefined THEN <<>>
        ELSE << <<"paperOrientation", cfg.paperOrientation>> >>)
    \o << <<"pageOrientations", OrderedEntries(cfg.pageOrientations)>> >>

(* structural equality: the same keys with the same values, in any order *)
StructEq(a, b) ==
    /\ a.visuals.fontScale = b.visuals.fontScale
    /\ a.visuals.tagWidth = b.visuals.tagWidth
    /\ a.visuals.tagHeight = b.visuals.tagHeight
    /\ { a.visuals.textScales[i] : i \in 1..Len(a.visuals.textScales) }
         = { b.visuals.textScales[i] : i \in 1..Len(b.visuals.textScales) }
    /\ a.paperOrientation = b.paperOrientation
    /\ a.pageOrientations = b.pageOrientations

(* slice(0, n): the oldest n entries kept *)
SliceLast_KeepsFirst(seq, n) == IF Len(seq) <= n THEN seq ELSE SubSeq(seq, 1, n)

(* line 66: seq.slice(-n) *)
SliceLast(seq, n) ==
    IF Len(seq) <= n THEN seq ELSE SubSeq(seq, Len(seq) - n + 1, Len(seq))

(* the comparison of line 62 left out: every call pushes *)
setAppConfigOp_AlwaysPushes(curr, nextPresent) ==
    [past |-> SliceLast(Append(curr.past, curr.present), HISTORY_LIMIT),
     present |-> nextPresent,
     future |-> <<>>]

(* the redo stack kept *)
setAppConfigOp_KeepsFuture(curr, nextPresent) ==
    IF JSONstringify(curr.present) = JSONstringify(nextPresent)
    THEN curr
    ELSE [past |-> SliceLast(Append(curr.past, curr.present), HISTORY_LIMIT),
          present |-> nextPresent,
          future |-> curr.future]

(* lines 59-73: the state update of setAppConfig, nextPresent being line 60 *)
setAppConfigOp(curr, nextPresent) ==
    IF JSONstringify(curr.present) = JSONstringify(nextPresent)
    THEN curr
    ELSE [past |-> SliceLast(Append(curr.past, curr.present), HISTORY_LIMIT),
          present |-> nextPresent,
          future |-> <<>>]

(* the undone configuration put at the end of the redo stack *)
handleUndoOp_Appends(curr) ==
    IF Len(curr.past) = 0 THEN curr
    ELSE [past |-> SubSeq(curr.past, 1, Len(curr.past) - 1),
          present |-> curr.past[Len(curr.past)],
          future |-> Append(curr.future, curr.present)]

(* lines 77-86 *)
handleUndoOp(curr) ==
    IF Len(curr.past) = 0 THEN curr
    ELSE [past |-> SubSeq(curr.past, 1, Len(curr.past) - 1),
          present |-> curr.past[Len(curr.past)],
          future |-> <<curr.present>> \o curr.future]

(* the redone configuration left on the redo stack *)
handleRedoOp_KeepsFuture(curr) ==
    IF Len(curr.future) = 0 THEN curr
    ELSE [past |-> Append(curr.past, curr.present),
          present |-> Head(curr.future),
          future |-> curr.future]

(* lines 90-99 *)
handleRedoOp(curr) ==
    IF Len(curr.future) = 0 THEN curr
    ELSE [past |-> Append(curr.past, curr.present),
          present |-> Head(curr.future),
          future |-> Tail(curr.future)]

(* the key removed and added again at the end *)
SetKey_MovesToEnd(obj, key, value) ==
    SelectSeq(obj, LAMBDA e : e[1] # key) \o <<<<key, value>>>>

(* { ...obj, [key]: value } on an object kept as its entries in insertion order *)
SetKey(obj, key, value) ==
    IF \E i \in 1..Len(obj) : obj[i][1] = key
    THEN [i \in 1..Len(obj) |-> IF obj[i][1] = key THEN <<key, value>> ELSE obj[i]]
    ELSE Append(obj, <<key, value>>)

(* the orientation written under the index of the page before *)
ToggleUpdater_PageBefore(prev, pageIdx, current) ==
    LET newOrientation == IF current = "landscape" THEN "portrait" ELSE "landscape"
        old == prev.pageOrientations
        target == IF pageIdx > 0 THEN pageIdx - 1 ELSE pageIdx
    IN  [prev EXCEPT !.pageOrientations =
            [k \in DOMAIN old \cup {target} |->
                IF k = target THEN newOrientation ELSE old[k]]]

(* lines 170-176: the updater of handlePageOrientationToggle *)
ToggleUpdater(prev, pageIdx, current) ==
    LET newOrientation == IF current = "landscape" THEN "portrait" ELSE "landscape"
        old == prev.pageOrientations
    IN  [prev EXCEPT !.pageOrientations =
            [k \in DOMAIN old \cup {pageIdx} |->
                IF k = pageIdx THEN newOrientation ELSE old[k]]]

(* line 581: prev => ({ ...prev, visuals: { ...prev.visuals, ...updates } }),
   updates = { tagWidth } *)
TagWidthUpdater(prev, w) == [prev EXCEPT !.visuals.tagWidth = w]

(* line 581 with the updates of handleTextScaleUpdate (part_004:257-263),
   { textScales: { ...textScales, [id]: newScale } }, textScales being the
   rendered ones *)
TextScaleUpdater(prev, rendered, id, newScale) ==
    [prev EXCEPT !.visuals.textScales = SetKey(rendered.visuals.textScales, id, newScale)]

(* lines 58-74 *)
setAppConfig(nextPresent) ==
    /\ history' = setAppConfigOp(history, nextPresent)
    /\ lastOp' = Ran("setAppConfig", nextPresent)
    /\ UNCHANGED <<products, layoutVars, appVars, tagVars>>

(* lines 132-136, the confirmation given *)
handleResetConfig == setAppConfig(DEFAULT_CONFIG)

(* the sheets rendered (lines 483-484) *)
RenderedOrientations == paginatedResult(products, appConfig).orientations

(* lines 168-177, called from the button of a rendered sheet (lines 503-510) *)
handlePageOrientationToggle(pageIdx) ==
    /\ pageIdx < Len(RenderedOrientations)
    /\ setAppConfig(ToggleUpdater(history.present, pageIdx,
                                  RenderedOrientations[pageIdx + 1]))

(* line 581: a resize of the preview tag committed to the global visuals *)
GlobalResize(w) == setAppConfig(TagWidthUpdater(history.present, w))

(* line 581: a text scale of the preview tag changed *)
GlobalTextScale ==
    \E id \in TextIds, v \in TextScaleValues :
        setAppConfig(TextScaleUpdater(history.present, appConfig, id, v))

(* lines 76-87 *)
handleUndo ==
    /\ history' = handleUndoOp(history)
    /\ lastOp' = Ran("undo", history.present)
    /\ UNCHANGED <<products, layoutVars, appVars, tagVars>>

(* lines 89-100 *)
handleRedo ==
    /\ history' = handleRedoOp(history)
    /\ lastOp' = Ran("redo", history.present)
    /\ UNCHANGED <<products, layoutVars, appVars, tagVars>>

(* two tags of 22 x 14: one sheet in portrait, one sheet each in landscape *)
SheetProducts == MkProducts([i \in 1..2 |-> <<220, 140>>])

(* lines 18 and 48-52 with nothing stored, and the memo already evaluated *)
Init ==
    /\ products = SheetProducts
    /\ history = [past |-> <<>>, present |-> DEFAULT_CONFIG, future |-> <<>>]
    /\ lastOp = NoOp(history)
    /\ pc = "done"
    /\ globalIndex = 0
    /\ pageIndex = 0
    /\ resultPages = <<>>
    /\ resultOrientations = <<>>
    /\ currentPageProducts = <<>>
    /\ currentY = 0
    /\ rows = <<>>
    /\ memo = EmptyResult
    /\ run = 2
    /\ uuid = Len(products)
    /\ draggedProductId = NoNumber
    /\ saved = Absent
    /\ NoTag

CanMutate == Len(history.past) < MaxHist

Next ==
    \/ CanMutate /\ handleResetConfig
    \/ CanMutate /\ \E k \in 0..(Len(RenderedOrientations) - 1) : handlePageOrientationToggle(k)
    \/ CanMutate /\ \E w \in TagWidths : GlobalResize(w)
    \/ CanMutate /\ GlobalTextScale
    \/ handleUndo
    \/ handleRedo

Spec == Init /\ [][Next]_vars

(* one sheet toggled again and again, with resizes to the width already set,
   undo and redo: histories as deep as the limit *)
NextDeep ==
    \/ handlePageOrientationToggle(0)
    \/ GlobalResize(DEFAULT_CONFIG.visuals.tagWidth)
    \/ handleUndo
    \/ handleRedo

SpecDeep == Init /\ [][NextDeep]_vars

----------------------------------------------------------------------------
(* The product list and its handlers (App.tsx:18, 148-194, 289-322) *)

MaxProducts == 2        \* SpecProducts: ids issued, so products ever made

(* { ...a, ...b } *)
Spread(a, b) ==
    [k \in DOMAIN a \cup DOMAIN b |-> IF k \in DOMAIN b THEN b[k] ELSE a[k]]

(* { ...a, ...b } on objects kept as their entries in insertion order *)
RECURSIVE SpreadEntries(_, _)
SpreadEntries(a, b) ==
    IF b = <<>> THEN a
    ELSE SpreadEntries(SetKey(a, Head(b)[1], Head(b)[2]), Tail(b))

ProductIds(prods) == { prods[i].id : i \in 1..Len(prods) }

(* prev.findIndex(p => p.id === id), 0-based, -1 when there is none *)
FindIndex(prods, id) ==
    IF id \in ProductIds(prods)
    THEN (CHOOSE i \in 1..Len(prods) :
              /\ prods[i].id = id
              /\ \A j \in 1..(i - 1) : prods[j].id # id) - 1
    ELSE -1

(* the PriceTag of a product that left the list unmounts: React runs the
   cleanup of its effect (part_004:441-444), nothing else *)
TagFollows(newProducts) ==
    IF mounted /\ tagOf # PREVIEW_ID /\ tagOf \notin ProductIds(newProducts)
    THEN /\ mounted' = FALSE
         /\ listeners' = Null
         /\ gesture' = Event("unmount")
         /\ UNCHANGED <<tagOf, isResizing, isSnapped, previewVisuals, resizeStartRef,
                        snapLocks, timers>>
    ELSE /\ gesture' = Event("app")
         /\ UNCHANGED <<mounted, tagOf, isResizing, isSnapped, previewVisuals,
                        resizeStartRef, snapLocks, timers, listeners>>

(* setProducts(list) from handler op *)
setProducts(op, newProducts) ==
    /\ products' = newProducts
    /\ lastOp' = Ran(op, history.present)
    /\ TagFollows(newProducts)
    /\ UNCHANGED <<history, layoutVars>>

(* InputForm.tsx:23-24: a product of the form, with a fresh id *)
NewProduct(n) == [id |-> n]

(* lines 148-150 *)
handleAddProduct ==
    /\ uuid < MaxProducts
    /\ uuid' = uuid + 1
    /\ setProducts("add", Append(products, NewProduct(uuid + 1)))
    /\ UNCHANGED <<draggedProductId, saved>>

(* lines 152-154, a file of two rows *)
handleBulkAdd ==
    /\ uuid + 2 <= MaxProducts
    /\ uuid' = uuid + 2
    /\ setProducts("bulkAdd", products \o <<NewProduct(uuid + 1), NewProduct(uuid + 2)>>)
    /\ UNCHANGED <<draggedProductId, saved>>

(* lines 156-158 *)
handleClear ==
    /\ setProducts("clear", <<>>)
    /\ UNCHANGED appVars

(* lines 160-162, from the button of a rendered tag (line 531-532) *)
handleRemoveProduct(id) ==
    /\ id \in ProductIds(products)
    /\ setProducts("remove", SelectSeq(products, LAMBDA p : p.id # id))
    /\ UNCHANGED appVars

(* lines 179-194: the updater of handleProductVisualChange *)
ProductVisualChange(prev, cfg, id, updates) ==
    [i \in 1..Len(prev) |->
        LET p == prev[i]
            currentVisuals ==
                IF "customVisuals" \in DOMAIN p THEN p.customVisuals ELSE cfg.visuals
            merged == Spread(currentVisuals, updates)
            newVisuals ==
                IF "textScales" \in DOMAIN updates /\ "textScales" \in DOMAIN currentVisuals
                THEN [merged EXCEPT !.textScales =
                         SpreadEntries(currentVisuals.textScales, updates.textScales)]
                ELSE merged
        IN  IF p.id # id THEN p ELSE Spread(p, [customVisuals |-> newVisuals])]

(* the updates the tag of a product hands to onVisualChange: a resize in width *)
ProductUpdates == { [tagWidth |-> 120] }

(* the updates the tag of the configuration tab hands to onVisualChange: a
   resize in height *)
GlobalUpdates == { [tagHeight |-> 90] }

(* lines 179-194, called by the tag of a rendered product (line 529) *)
handleProductVisualChange(id, updates) ==
    /\ id \in ProductIds(products)
    /\ setProducts("visualChange", ProductVisualChange(products, appConfig, id, updates))
    /\ UNCHANGED appVars

(* lines 291-296 *)
onProductDragStart(id) ==
    /\ id \in ProductIds(products)
    /\ draggedProductId' = id
    /\ UNCHANGED <<uuid, saved, products, history, lastOp, layoutVars, tagVars>>

(* lines 298-301 *)
onProductDragEnd ==
    /\ draggedProductId' = NoNumber
    /\ UNCHANGED <<uuid, saved, products, history, lastOp, layoutVars, tagVars>>

(* splice(at, 1) *)
RemoveAt(seq, at) == SubSeq(seq, 1, at) \o SubSeq(seq, at + 2, Len(seq))

(* splice(at, 0, x) *)
InsertAt(seq, at, x) == SubSeq(seq, 1, at) \o <<x>> \o SubSeq(seq, at + 1, Len(seq))

(* the item dropped put after the place of the target *)
ProductDrop_AfterTarget(prev, sourceId, targetId) ==
    LET indexSource == FindIndex(prev, sourceId)
        indexTarget == FindIndex(prev, targetId)
    IN  IF indexSource = -1 \/ indexTarget = -1 THEN prev
        ELSE InsertAt(RemoveAt(prev, indexSource),
                      FindIndex(RemoveAt(prev, indexSource), targetId) + 1,
                      prev[indexSource + 1])

(* lines 313-321: the updater of onProductDrop *)
ProductDrop(prev, sourceId, targetId) ==
    LET indexSource == FindIndex(prev, sourceId)
        indexTarget == FindIndex(prev, targetId)
    IN  IF indexSource = -1 \/ indexTarget = -1 THEN prev
        ELSE InsertAt(RemoveAt(prev, indexSource), indexTarget, prev[indexSource + 1])

(* lines 307-322, on the tag of a rendered product (line 522) *)
onProductDrop(targetId) ==
    /\ targetId \in ProductIds(products)
    /\ IF draggedProductId = NoNumber \/ draggedProductId = targetId
       THEN UNCHANGED <<products, history, lastOp, layoutVars, tagVars>>
       ELSE setProducts("drop", ProductDrop(products, draggedProductId, targetId))
    /\ UNCHANGED appVars

(* line 581: the tag of the configuration tab hands updates to onVisualChange *)
GlobalVisualChange(updates) ==
    setAppConfig([history.present EXCEPT !.visuals = Spread(@, updates)])

(* lines 18 and 48-52 with nothing stored, no product yet *)
InitProducts ==
    /\ products = <<>>
    /\ history = [past |-> <<>>, present |-> DEFAULT_CONFIG, future |-> <<>>]
    /\ lastOp = NoOp(history)
    /\ pc = "done"
    /\ globalIndex = 0
    /\ pageIndex = 0
    /\ resultPages = <<>>
    /\ resultOrientations = <<>>
    /\ currentPageProducts = <<>>
    /\ currentY = 0
    /\ rows = <<>>
    /\ memo = EmptyResult
    /\ run = 2
    /\ AppInit
    /\ NoTag

NextProducts ==
    \/ handleAddProduct
    \/ handleBulkAdd
    \/ handleClear
    \/ \E id \in ProductIds(products) : handleRemoveProduct(id)
    \/ \E id \in ProductIds(products), u \in ProductUpdates : handleProductVisualChange(id, u)
    \/ \E id \in ProductIds(products) : onProductDragStart(id)
    \/ onProductDragEnd
    \/ \E id \in ProductIds(products) : onProductDrop(id)
    \/ CanMutate /\ \E u \in GlobalUpdates : GlobalVisualChange(u)
    \/ handleUndo
    \/ handleRedo

SpecProducts == InitProducts /\ [][NextProducts]_vars

----------------------------------------------------------------------------
(* The resize gesture of one PriceTag (src/unnamed/part_004:186-445).
   Pointer positions are taken in tenths of a centimetre, relative to the
   position of the pointer-down: e.clientX is the image of the pixel
   position under the division by PX_PER_CM of lines 393-394. *)

MaxGestures == 1        \* SpecTag: gestures started on the tag

SNAP_INCREMENT == 5
SNAP_THRESHOLD == 4
RELEASE_DISTANCE == 10
MIN_SIZE == 30
MIN_FONT_SCALE == 50
FALLBACK_TAG_W == 100
FALLBACK_TAG_H == 75
FALLBACK_FONT_SCALE == 100

Axes == {"w", "h"}
Directions == {"w", "h", "wh"}

(* Math.abs *)
Abs(x) == IF x >= 0 THEN x ELSE -x

(* Math.round(a / b) for a >= 0 and b > 0: a half rounds up *)
RoundDiv(a, b) == (2 * a + b) \div (2 * b)

(* obj[field], a field the object lacks reading as a missing value *)
FieldOf(obj, field) == IF field \in DOMAIN obj THEN obj[field] ELSE 0

(* {} *)
EmptyObject == <<>>

(* the product prop of the tag: a product of the list (App.tsx:525), or the
   example product of the configuration tab (App.tsx:569-575) *)
TagProduct ==
    IF tagOf \in ProductIds(products)
    THEN products[FindIndex(products, tagOf) + 1]
    ELSE [id |-> PREVIEW_ID]

(* line 184 *)
productCustoms ==
    IF "customVisuals" \in DOMAIN TagProduct THEN TagProduct.customVisuals ELSE EmptyObject

(* lines 190-193 *)
visuals ==
    LET base == Spread(appConfig.visuals, productCustoms)
    IN  IF previewVisuals # Null THEN Spread(base, previewVisuals) ELSE base

(* lines 241-242 *)
currentWidth == OrNum(FieldOf(visuals, "tagWidth"), FALLBACK_TAG_W)
currentHeight == OrNum(FieldOf(visuals, "tagHeight"), FALLBACK_TAG_H)

(* the positions of the pointer: far left (under the minimum size), next to
   the start (off the grid, within the release distance of the multiples on
   either side) and beyond the release distance of the start *)
PointerDeltas == {-80, 2, 11}
PointerEvents == { [clientX |-> d, clientY |-> d] : d \in PointerDeltas }

(* lines 316-329, from the handle of a rendered tag; mouse-down is handled
   by React after the pending renders and effects *)
startResize(direction) ==
    /\ mounted
    /\ isResizing = "null"
    /\ listeners = Null
    /\ gesture.n < MaxGestures
    /\ isResizing' = direction
    /\ resizeStartRef' = [x |-> 0, y |-> 0, w |-> currentWidth, h |-> currentHeight,
                          fontScale |-> OrNum(FieldOf(visuals, "fontScale"),
                                              FALLBACK_FONT_SCALE)]
    /\ gesture' = [NoGesture EXCEPT !.ev = "down", !.n = gesture.n + 1]
    /\ UNCHANGED <<mounted, tagOf, isSnapped, previewVisuals, snapLocks, timers, listeners,
                   appVars, products, history, lastOp, layoutVars>>

(* what the handlers of the effect close over *)
Subscription ==
    IF isResizing = "null" THEN Null
    ELSE [isResizing |-> isResizing, previewVisuals |-> previewVisuals]

(* lines 383-445: after a render that changed isResizing or previewVisuals
   the effect is cleaned up and run again; React runs it some time after the
   state was set *)
Render ==
    /\ mounted
    /\ listeners # Subscription
    /\ listeners' = Subscription
    /\ UNCHANGED <<mounted, tagOf, isResizing, isSnapped, previewVisuals, resizeStartRef,
                   snapLocks, timers, gesture, appVars, products, history, lastOp,
                   layoutVars>>

(* the id setTimeout returns: one no pending callback has *)
NewTimerId(pending) ==
    CHOOSE id \in 1..(Cardinality(pending) + 1) : \A t \in pending : t.id # id

(* clearTimeout(id) *)
ClearTimeout(pending, id) == { t \in pending : t.id # id }

(* line 336 *)
NearestSnap(rawValue) == RoundDiv(rawValue, SNAP_INCREMENT) * SNAP_INCREMENT

(* the lock broken as soon as the value is out of the capture threshold *)
BreaksLock_AtThreshold(rawValue, lock) == Abs(rawValue - lock.anchor) >= SNAP_THRESHOLD

(* line 341 *)
BreaksLock(rawValue, lock) == Abs(rawValue - lock.anchor) > RELEASE_DISTANCE

(* a capture threshold of half its value, below half the snap increment *)
applySnap_NarrowCapture(rawValue, lock, axis, pending, snapped) ==
    LET nearestSnap == NearestSnap(rawValue)
        dist == Abs(rawValue - nearestSnap)
    IN  IF lock.active
        THEN IF BreaksLock(rawValue, lock)
             THEN [value |-> rawValue,
                   lock |-> [lock EXCEPT !.active = FALSE, !.timer = NoNumber],
                   timers |-> IF lock.timer # NoNumber
                              THEN ClearTimeout(pending, lock.timer) ELSE pending,
                   isSnapped |-> FALSE]
             ELSE [value |-> lock.anchor, lock |-> lock, timers |-> pending,
                   isSnapped |-> snapped]
        ELSE IF 2 * dist < SNAP_THRESHOLD
             THEN IF lock.ignoreAnchor = nearestSnap
                  THEN [value |-> rawValue, lock |-> lock, timers |-> pending,
                        isSnapped |-> snapped]
                  ELSE LET id == NewTimerId(pending)
                       IN  [value |-> nearestSnap,
                            lock |-> [lock EXCEPT !.active = TRUE, !.anchor = nearestSnap,
                                                  !.timer = id],
                            timers |-> pending \cup
                                {[id |-> id, axis |-> axis, nearestSnap |-> nearestSnap]},
                            isSnapped |-> TRUE]
             ELSE [value |-> rawValue,
                   lock |-> [lock EXCEPT !.ignoreAnchor = NoNumber],
                   timers |-> pending,
                   isSnapped |-> snapped]

(* lines 331-380: the value applySnap returns and what it leaves in
   snapLocks.current[axis], the pending timers and isSnapped *)
applySnap(rawValue, lock, axis, pending, snapped) ==
    LET nearestSnap == NearestSnap(rawValue)
        dist == Abs(rawValue - nearestSnap)
    IN  IF lock.active
        THEN IF BreaksLock(rawValue, lock)
             THEN [value |-> rawValue,
                   lock |-> [lock EXCEPT !.active = FALSE, !.timer = NoNumber],
                   timers |-> IF lock.timer # NoNumber
                              THEN ClearTimeout(pending, lock.timer) ELSE pending,
                   isSnapped |-> FALSE]
             ELSE [value |-> lock.anchor, lock |-> lock, timers |-> pending,
                   isSnapped |-> snapped]
        ELSE IF dist < SNAP_THRESHOLD
             THEN IF lock.ignoreAnchor = nearestSnap
                  THEN [value |-> rawValue, lock |-> lock, timers |-> pending,
                        isSnapped |-> snapped]
                  ELSE LET id == NewTimerId(pending)
                       IN  [value |-> nearestSnap,
                            lock |-> [lock EXCEPT !.active = TRUE, !.anchor = nearestSnap,
                                                  !.timer = id],
                            timers |-> pending \cup
                                {[id |-> id, axis |-> axis, nearestSnap |-> nearestSnap]},
                            isSnapped |-> TRUE]
             ELSE [value |-> rawValue,
                   lock |-> [lock EXCEPT !.ignoreAnchor = NoNumber],
                   timers |-> pending,
                   isSnapped |-> snapped]

(* the callback leaves the ignore anchor as it is *)
TimerFires_NoIgnore(t) ==
    /\ t \in timers
    /\ timers' = timers \ {t}
    /\ snapLocks' = [snapLocks EXCEPT ![t.axis] =
                        [@ EXCEPT !.active = FALSE, !.timer = NoNumber]]
    /\ isSnapped' = (IF mounted THEN FALSE ELSE isSnapped)
    /\ gesture' = [Event("timer") EXCEPT !.timedOut = @ \/ gesture.pinned # NoNumber,
                                         !.lastExpired = IF t.axis = isResizing
                                                         THEN t.nearestSnap ELSE @,
                                         !.lastReleased = IF t.axis = isResizing
                                                          THEN t.nearestSnap ELSE @]
    /\ UNCHANGED <<mounted, tagOf, isResizing, previewVisuals, resizeStartRef, listeners,
                   appVars, products, history, lastOp, layoutVars>>

(* lines 360-365: the callback of a lock's timer; React drops the state
   update of a component that is not mounted *)
TimerFires(t) ==
    /\ t \in timers
    /\ timers' = timers \ {t}
    /\ snapLocks' = [snapLocks EXCEPT ![t.axis] =
                        [@ EXCEPT !.active = FALSE, !.ignoreAnchor = t.nearestSnap,
                                  !.timer = NoNumber]]
    /\ isSnapped' = (IF mounted THEN FALSE ELSE isSnapped)
    /\ gesture' = [Event("timer") EXCEPT !.timedOut = @ \/ gesture.pinned # NoNumber,
                                         !.lastExpired = IF t.axis = isResizing
                                                         THEN t.nearestSnap ELSE @,
                                         !.lastReleased = IF t.axis = isResizing
                                                          THEN t.nearestSnap ELSE @]
    /\ UNCHANGED <<mounted, tagOf, isResizing, previewVisuals, resizeStartRef, listeners,
                   appVars, products, history, lastOp, layoutVars>>

(* new_width / start_width applied to a start value, kept to the resolution
   of the model *)
Scaled(startValue, newWidth, startW) == RoundDiv(startValue * newWidth, startW)

(* lines 402-414, resize in width *)
MoveW(start, e) ==
    LET rawW == Max(MIN_SIZE, start.w + (e.clientX - start.x))
        r == applySnap(rawW, snapLocks.w, "w", timers, isSnapped)
    IN  [updates |-> [tagWidth |-> r.value], raw |-> rawW, reported |-> r.value,
         lockBefore |-> snapLocks.w,
         snapLocks |-> [snapLocks EXCEPT !.w = r.lock],
         timers |-> r.timers, isSnapped |-> r.isSnapped]

(* lines 405-407, resize in height *)
MoveH(start, e) ==
    LET rawH == Max(MIN_SIZE, start.h + (e.clientY - start.y))
        r == applySnap(rawH, snapLocks.h, "h", timers, isSnapped)
    IN  [updates |-> [tagHeight |-> r.value], raw |-> rawH, reported |-> r.value,
         lockBefore |-> snapLocks.h,
         snapLocks |-> [snapLocks EXCEPT !.h = r.lock],
         timers |-> r.timers, isSnapped |-> r.isSnapped]

(* the height scaled without its own minimum *)
MoveWH_NoHeightFloor(start, e) ==
    LET newWidth == Max(MIN_SIZE, start.w + (e.clientX - start.x))
    IN  [updates |-> [tagWidth |-> newWidth,
                      tagHeight |-> Scaled(start.h, newWidth, start.w),
                      fontScale |-> Max(MIN_FONT_SCALE,
                                        Scaled(start.fontScale, newWidth, start.w))],
         raw |-> start.w + (e.clientX - start.x), reported |-> newWidth,
         lockBefore |-> NoLock,
         snapLocks |-> snapLocks, timers |-> timers, isSnapped |-> isSnapped]

(* lines 408-414, proportional resize *)
MoveWH(start, e) ==
    LET newWidth == Max(MIN_SIZE, start.w + (e.clientX - start.x))
    IN  [updates |-> [tagWidth |-> newWidth,
                      tagHeight |-> Max(MIN_SIZE, Scaled(start.h, newWidth, start.w)),
                      fontScale |-> Max(MIN_FONT_SCALE,
                                        Scaled(start.fontScale, newWidth, start.w))],
         raw |-> start.w + (e.clientX - start.x), reported |-> newWidth,
         lockBefore |-> NoLock,
         snapLocks |-> snapLocks, timers |-> timers, isSnapped |-> isSnapped]

(* App.tsx:529 and 581: what onVisualChange does with the updates *)
onVisualChange(updates) ==
    IF tagOf = PREVIEW_ID
    THEN LET next == [history.present EXCEPT !.visuals = Spread(@, updates)]
         IN  /\ history' = setAppConfigOp(history, next)
             /\ lastOp' = Ran("setAppConfig", next)
             /\ UNCHANGED products
    ELSE /\ products' = ProductVisualChange(products, appConfig, tagOf, updates)
         /\ lastOp' = Ran("visualChange", history.present)
         /\ UNCHANGED history

(* the lock of the axis was engaged by the move *)
Engaged(m, axis) == ~m.lockBefore.active /\ m.snapLocks[axis].active

(* the grid multiple the reported value is pinned to after a move of an
   axis: the anchor of a lock the move engaged, else the multiple it was
   pinned to while the raw value is within the release distance of it *)
PinnedAfter(m, axis) ==
    IF Engaged(m, axis) THEN m.snapLocks[axis].anchor
    ELSE IF gesture.pinned # NoNumber /\ Abs(m.raw - gesture.pinned) <= RELEASE_DISTANCE
    THEN gesture.pinned
    ELSE NoNumber

(* what a move of an axis leaves in the record of the gesture *)
AxisMoved(m, axis) ==
    LET pin == PinnedAfter(m, axis)
        left == gesture.pinned # NoNumber /\ pin # gesture.pinned
    IN  [gesture EXCEPT
            !.ev = "move", !.raw = m.raw, !.reported = m.reported,
            !.pulledFrom = IF m.lockBefore.active /\ ~m.snapLocks[axis].active
                           THEN m.lockBefore.anchor ELSE NoNumber,
            !.ignoreBefore = m.lockBefore.ignoreAnchor,
            !.free = ~m.lockBefore.active,
            !.lastReleased = IF m.lockBefore.active /\ ~m.snapLocks[axis].active
                             THEN m.lockBefore.anchor ELSE @,
            !.computed = m.updates,
            !.pinned = pin,
            !.timedOut = IF pin = gesture.pinned THEN @ ELSE FALSE,
            !.released = IF left /\ ~gesture.timedOut THEN gesture.pinned ELSE NoNumber,
            !.expired = IF left /\ gesture.timedOut THEN gesture.pinned ELSE NoNumber,
            !.products = products, !.history = history]

(* what a proportional move leaves in the record of the gesture *)
CornerMoved(m) ==
    [Event("move") EXCEPT !.raw = m.raw, !.reported = m.reported,
                          !.computed = m.updates, !.pinned = NoNumber,
                          !.timedOut = FALSE,
                          !.products = products, !.history = history]

(* the preview committed on every move *)
setPreviewVisuals_Commits(updates) ==
    /\ previewVisuals' = updates
    /\ onVisualChange(updates)

(* line 416: setPreviewVisuals(updates), a state of the tag alone *)
setPreviewVisuals(updates) ==
    /\ previewVisuals' = updates
    /\ UNCHANGED <<products, history, lastOp>>

(* lines 386-417, the handler window holds, closed over the isResizing of
   the render that subscribed it *)
handleMouseMove(e) ==
    /\ listeners # Null
    /\ IF resizeStartRef = Null
       THEN /\ gesture' = [Event("lateMove") EXCEPT !.products = products,
                                                   !.history = history]
            /\ UNCHANGED <<previewVisuals, snapLocks, timers, isSnapped,
                           products, history, lastOp>>
       ELSE LET axis == listeners.isResizing
                m == CASE axis = "w" -> MoveW(resizeStartRef, e)
                       [] axis = "h" -> MoveH(resizeStartRef, e)
                       [] OTHER -> MoveWH(resizeStartRef, e)
            IN  /\ setPreviewVisuals(m.updates)
                /\ snapLocks' = m.snapLocks
                /\ timers' = m.timers
                /\ isSnapped' = m.isSnapped
                /\ gesture' = IF axis \in Axes THEN AxisMoved(m, axis) ELSE CornerMoved(m)
    /\ UNCHANGED <<mounted, tagOf, isResizing, resizeStartRef, listeners,
                   appVars, layoutVars>>

(* the ignore anchors left as they are *)
ReleaseLocks_KeepsIgnore(locks) ==
    [axis \in Axes |-> [locks[axis] EXCEPT !.active = FALSE, !.timer = NoNumber]]

(* lines 429-435 *)
ReleaseLocks(locks) ==
    [axis \in Axes |-> [locks[axis] EXCEPT !.active = FALSE, !.timer = NoNumber,
                                           !.ignoreAnchor = NoNumber]]

(* lines 419-436, the handler window holds, closed over the previewVisuals
   of the render that subscribed it *)
handleMouseUp ==
    /\ listeners # Null
    /\ IF listeners.previewVisuals # Null
       THEN onVisualChange(listeners.previewVisuals)
       ELSE UNCHANGED <<products, history, lastOp>>
    /\ previewVisuals' = Null
    /\ isResizing' = "null"
    /\ isSnapped' = FALSE
    /\ resizeStartRef' = Null
    /\ snapLocks' = ReleaseLocks(snapLocks)
    /\ timers' = { t \in timers : \A axis \in Axes : snapLocks[axis].timer # t.id }
    /\ gesture' = [Event("up") EXCEPT !.ended = TRUE, !.pinned = NoNumber,
                                      !.timedOut = FALSE,
                                      !.lastExpired = NoNumber,
                                      !.lastReleased = NoNumber,
                                      !.committed = listeners.previewVisuals]
    /\ UNCHANGED <<mounted, tagOf, listeners, appVars, layoutVars>>

(* the tag of the configuration tab with no product made yet, or the tag of
   the one product of the list on its sheet, a product resized before *)
InitTag ==
    /\ tagOf \in {PREVIEW_ID, 1}
    /\ products = (IF tagOf = PREVIEW_ID THEN <<>> ELSE <<MkProduct(1, <<100, 140>>)>>)
    /\ history = [past |-> <<>>, present |-> DEFAULT_CONFIG, future |-> <<>>]
    /\ lastOp = NoOp(history)
    /\ pc = "done"
    /\ globalIndex = 0
    /\ pageIndex = 0
    /\ resultPages = <<>>
    /\ resultOrientations = <<>>
    /\ currentPageProducts = <<>>
    /\ currentY = 0
    /\ rows = <<>>
    /\ memo = EmptyResult
    /\ run = 2
    /\ uuid = Len(products)
    /\ draggedProductId = NoNumber
    /\ saved = Absent
    /\ mounted = TRUE
    /\ TagState

NextTag ==
    \/ \E d \in Directions : startResize(d)
    \/ Render
    \/ \E e \in PointerEvents : handleMouseMove(e)
    \/ handleMouseUp
    \/ \E t \in timers : TimerFires(t)
    \/ \E id \in ProductIds(products) : handleRemoveProduct(id)

SpecTag == InitTag /\ [][NextTag]_vars

----------------------------------------------------------------------------
(* Reordering by drag and drop on lists of several products *)

MaxDragItems == 3       \* SpecDrop: products in the list when the page is taken up

(* lines 18 and 48-52, after MaxDragItems or fewer products were added and
   the first one resized *)
InitDrop ==
    /\ \E n \in 0..MaxDragItems :
          products = [i \in 1..n |-> IF i = 1 THEN MkProduct(1, <<140, 140>>)
                                     ELSE NewProduct(i)]
    /\ history = [past |-> <<>>, present |-> DEFAULT_CONFIG, future |-> <<>>]
    /\ lastOp = NoOp(history)
    /\ pc = "done"
    /\ globalIndex = 0
    /\ pageIndex = 0
    /\ resultPages = <<>>
    /\ resultOrientations = <<>>
    /\ currentPageProducts = <<>>
    /\ currentY = 0
    /\ rows = <<>>
    /\ memo = EmptyResult
    /\ run = 2
    /\ uuid = Len(products)
    /\ draggedProductId = NoNumber
    /\ saved = Absent
    /\ NoTag

NextDrop ==
    \/ \E id \in ProductIds(products) : onProductDragStart(id)
    \/ onProductDragEnd
    \/ \E id \in ProductIds(products) : onProductDrop(id)
    \/ \E id \in ProductIds(products) : handleRemoveProduct(id)

SpecDrop == InitDrop /\ [][NextDrop]_vars

----------------------------------------------------------------------------
(* The stored configuration (App.tsx:24-52 and 126-130).  The slot holds a
   string; it is kept as what JSON.parse makes of it. *)

(* stored tag sizes: a plausible one, a legacy pixel value, a negative one *)
StoredWidths == {120, 3800, -50}
StoredHeights == {90, 3800}

(* stored orientations: a valid one and a string that names none *)
StoredOrientations == {"landscape", "diagonal"}

(* the objects {}, { f: v } for v in values *)
Optional(f, values) == { EmptyObject } \cup { [k \in {f} |-> v] : v \in values }

(* a \cup b on objects with disjoint keys *)
Merge(a, b) == [k \in DOMAIN a \cup DOMAIN b |-> IF k \in DOMAIN a THEN a[k] ELSE b[k]]

StoredVisuals ==
    { Merge(w, h) : w \in Optional("tagWidth", StoredWidths),
                    h \in Optional("tagHeight", StoredHeights) }

StoredObjects ==
    { Merge(v, Merge(o, po)) :
        v \in Optional("visuals", StoredVisuals),
        o \in Optional("paperOrientation", StoredOrientations),
        po \in Optional("pageOrientations", { (0 :> "landscape") }) }

(* what the slot may hold: nothing, a string that is no JSON, the JSON null,
   a JSON number, a JSON object *)
Blobs ==
    { Absent, [kind |-> "corrupt"], [kind |-> "null"], [kind |-> "number"] }
    \cup { [kind |-> "object", parsed |-> obj] : obj \in StoredObjects }

(* the threshold of line 31-32, in tenths of a centimetre *)
PIXEL_THRESHOLD == 500

(* a || b on optional objects and strings: a missing field is falsy *)
OrField(obj, f, b) == IF f \in DOMAIN obj THEN obj[f] ELSE b

(* lines 31-32 *)
MigrationCheck(v, default) == IF v > PIXEL_THRESHOLD THEN default ELSE v

(* lines 24-45 *)
getInitialConfig(blob) ==
    IF blob.kind = "absent" THEN DEFAULT_CONFIG                 \* line 27, 41
    ELSE IF blob.kind \in {"corrupt", "null"} THEN DEFAULT_CONFIG  \* line 28 or 30 throws, line 43
    ELSE LET parsed == IF blob.kind = "object" THEN blob.parsed ELSE EmptyObject
             spread == Spread(DEFAULT_CONFIG.visuals, OrField(parsed, "visuals", EmptyObject))
             loadedVisuals ==
                 [spread EXCEPT
                     !.tagWidth = MigrationCheck(@, DEFAULT_CONFIG.visuals.tagWidth),
                     !.tagHeight = MigrationCheck(@, DEFAULT_CONFIG.visuals.tagHeight)]
         IN  [visuals |-> loadedVisuals,
              paperOrientation |-> OrField(parsed, "paperOrientation", "portrait"),
              pageOrientations |-> OrField(parsed, "pageOrientations", <<>>)]

(* the blob JSON.stringify(cfg) parses to *)
StoredFrom(cfg) ==
    [kind |-> "object",
     parsed |-> Merge([visuals |-> cfg.visuals, pageOrientations |-> cfg.pageOrientations],
                      IF cfg.paperOrientation = Undefined THEN EmptyObject
                      ELSE [paperOrientation |-> cfg.paperOrientation])]

(* lines 126-130 *)
handleSaveConfig ==
    /\ saved' = StoredFrom(appConfig)
    /\ lastOp' = Ran("save", history.present)
    /\ UNCHANGED <<uuid, draggedProductId, products, history, layoutVars, tagVars>>

(* lines 16-52: the page is loaded again and App constructed from the slot *)
Reload ==
    /\ products' = <<>>
    /\ history' = [past |-> <<>>, present |-> getInitialConfig(saved), future |-> <<>>]
    /\ lastOp' = [NoOp(history') EXCEPT !.products = <<>>, !.prevProducts = <<>>]
    /\ uuid' = 0
    /\ draggedProductId' = NoNumber
    /\ UNCHANGED <<saved, layoutVars, tagVars>>

(* lines 16-52: App constructed with anything in the slot *)
InitLoad ==
    /\ saved \in Blobs
    /\ products = <<>>
    /\ history = [past |-> <<>>, present |-> getInitialConfig(saved), future |-> <<>>]
    /\ lastOp = NoOp(history)
    /\ pc = "done"
    /\ globalIndex = 0
    /\ pageIndex = 0
    /\ resultPages = <<>>
    /\ resultOrientations = <<>>
    /\ currentPageProducts = <<>>
    /\ currentY = 0
    /\ rows = <<>>
    /\ memo = EmptyResult
    /\ run = 2
    /\ uuid = 0
    /\ draggedProductId = NoNumber
    /\ NoTag

NextLoad ==
    \/ CanMutate /\ \E w \in TagWidths : GlobalResize(w)
    \/ handleUndo
    \/ handleSaveConfig
    \/ Reload

SpecLoad == InitLoad /\ [][NextLoad]_vars

----------------------------------------------------------------------------
(* Properties of the history *)

(* the last handler was a setAppConfig whose result differs from the present
   it was given *)
EffectiveMutation ==
    /\ lastOp.op = "setAppConfig"
    /\ ~StructEq(lastOp.next, lastOp.before.present)

(* C7: past never holds more than 50 entries, and an effective mutation that
   finds 50 entries in past drops the oldest one and appends the previous
   present. *)
C7_PastBounded ==
    /\ Len(history.past) <= 50
    /\ EffectiveMutation /\ Len(lastOp.before.past) = 50
       => history.past = Append(Tail(lastOp.before.past), lastOp.before.present)

(* an effective mutation on a full past whose oldest entry was not the
   initial configuration any more *)
C7_Witness ==
    /\ EffectiveMutation
    /\ Len(lastOp.before.past) = 50
    /\ lastOp.before.past[1] # DEFAULT_CONFIG
    /\ lastOp.prevOp = "redo"

(* C8: right after an effective setAppConfig the redo stack is empty and
   present is the configuration the updater returned. *)
C8_FutureCleared ==
    EffectiveMutation => /\ history.future = <<>>
                         /\ history.present = lastOp.next

(* an effective mutation after an undo that had left entries to redo *)
C8_Witness ==
    /\ EffectiveMutation
    /\ Len(lastOp.before.future) > 0
    /\ lastOp.prevOp \in {"undo", "redo"}

(* C9: a redo right after an undo that had something to undo, and an undo
   right after a redo that had something to redo, restore (past, present,
   future) as they were; an undo on an empty past and a redo on an empty
   future change nothing. *)
C9_UndoRedoInverse ==
    /\ lastOp.op = "redo" /\ lastOp.prevOp = "undo" /\ Len(lastOp.prevBefore.past) > 0
       => history = lastOp.prevBefore
    /\ lastOp.op = "undo" /\ lastOp.prevOp = "redo" /\ Len(lastOp.prevBefore.future) > 0
       => history = lastOp.prevBefore
    /\ lastOp.op = "undo" /\ Len(lastOp.before.past) = 0 => history = lastOp.before
    /\ lastOp.op = "redo" /\ Len(lastOp.before.future) = 0 => history = lastOp.before

(* a redo after an undo taken in the middle of the history *)
C9_Witness ==
    /\ lastOp.op = "redo"
    /\ lastOp.prevOp = "undo"
    /\ Len(lastOp.prevBefore.past) > 1
    /\ Len(lastOp.prevBefore.future) > 0

(* C10: a setAppConfig whose result is structurally equal to present leaves
   past, present and future as they were. *)
C10_NoOp ==
    lastOp.op = "setAppConfig" /\ StructEq(lastOp.next, lastOp.before.present)
        => history = lastOp.before

(* a text scale set to the value it has, with two scales stored and entries
   on both stacks *)
C10_Witness ==
    /\ lastOp.op = "setAppConfig"
    /\ StructEq(lastOp.next, lastOp.before.present)
    /\ Len(lastOp.before.present.visuals.textScales) = 2
    /\ Len(history.past) > 0
    /\ Len(history.future) > 0

(* the snapshots in the order undo and redo walk them *)
Timeline(h) == h.past \o <<h.present>> \o h.future

(* C11 as stated: no entry of past and no entry of future is structurally
   equal to present. *)
C11_NoEntryEqualsPresent ==
    /\ \A i \in 1..Len(history.past) : ~StructEq(history.past[i], history.present)
    /\ \A i \in 1..Len(history.future) : ~StructEq(history.future[i], history.present)

(* C11: neighbouring snapshots always differ: no entry of past . present .
   future is structurally equal to the entry next to it, so the newest entry
   of past and the first entry of future are never equal to present; an
   older entry may be (a value changed and changed back). *)
C11_NeighboursDiffer ==
    \A i \in 1..(Len(Timeline(history)) - 1) :
        ~StructEq(Timeline(history)[i], Timeline(history)[i + 1])

(* a value changed and changed back, with an entry to redo: the oldest entry
   of past equals present *)
C11_Witness ==
    /\ Len(history.past) >= 2
    /\ Len(history.future) > 0
    /\ StructEq(history.past[1], history.present)

ProductOps == {"add", "bulkAdd", "clear", "remove", "visualChange", "drop"}

(* the handler before the last one changed the product list *)
UndoAfterProductMutation ==
    /\ lastOp.op = "undo"
    /\ lastOp.prevOp \in ProductOps
    /\ lastOp.products # lastOp.prevProducts

(* C12: an undo right after an effective mutation of the product list
   restores the product list as it was before that mutation. *)
C12_UndoRestoresProducts ==
    UndoAfterProductMutation => products = lastOp.prevProducts

----------------------------------------------------------------------------
(* Properties of the resize gesture *)

(* the last event was a pointer-move of a width-only or height-only drag *)
AxisMove == gesture.ev = "move" /\ isResizing \in Axes

(* C13 as stated: once pinned to a grid multiple M the reported value is M
   on every pointer-move whose raw value is within the release distance of
   M, however much time passes, and a pointer-move leaves M only with a raw
   value farther than the release distance from M. *)
C13_PinnedWhateverTime ==
    AxisMove =>
        /\ gesture.pinned # NoNumber => gesture.reported = gesture.pinned
        /\ \A M \in {gesture.released, gesture.expired} \ {NoNumber} :
              /\ Abs(gesture.raw - M) > RELEASE_DISTANCE
              /\ gesture.reported # M

(* C13: once pinned to a grid multiple M the reported value is M on every
   pointer-move whose raw value is within the release distance of M for as
   long as the timer of the lock has not fired, and with the timer not fired
   the reported value first differs from M on the first pointer-move whose
   raw value is farther than the release distance from M. *)
C13_PinnedUntilTimer ==
    AxisMove =>
        /\ gesture.pinned # NoNumber /\ ~gesture.timedOut
           => gesture.reported = gesture.pinned
        /\ gesture.released # NoNumber
           => /\ Abs(gesture.raw - gesture.released) > RELEASE_DISTANCE
              /\ gesture.reported # gesture.released

(* a pointer-move that stays pinned to a multiple that is not the nearest
   one of its raw value *)
C13_Witness ==
    /\ AxisMove
    /\ gesture.pinned # NoNumber
    /\ ~gesture.timedOut
    /\ NearestSnap(gesture.raw) # gesture.pinned
    /\ gesture.reported = gesture.pinned

(* a pointer-move that leaves the multiple it was pinned to *)
C13_WitnessReleased ==
    /\ AxisMove
    /\ gesture.released # NoNumber
    /\ gesture.pinned = NoNumber

(* the last pointer-move pulled the raw value farther than the release
   distance from the anchor of an active lock *)
LockBroken == AxisMove /\ gesture.pulledFrom # NoNumber

(* the raw value of the last pointer-move is within the capture threshold of
   its nearest grid multiple, which is not the ignore anchor the move found *)
Capturable ==
    /\ Abs(gesture.raw - NearestSnap(gesture.raw)) < SNAP_THRESHOLD
    /\ NearestSnap(gesture.raw) # gesture.ignoreBefore

(* C14: a pointer-move that breaks an active lock is evaluated as in the
   no-lock case: with the raw value within the capture threshold of its
   nearest grid multiple, which is not the ignore anchor, a new lock is
   engaged at that multiple and that multiple is returned. *)
C14_FreshEvaluation ==
    LockBroken /\ Capturable
        => /\ snapLocks[isResizing].active
           /\ snapLocks[isResizing].anchor = NearestSnap(gesture.raw)
           /\ gesture.reported = NearestSnap(gesture.raw)

(* C15: on pointer-up the dimensions handed to onVisualChange are those the
   most recent pointer-move of the gesture computed, whatever the order of
   pointer-moves, renders and the pointer-up; a gesture with no pointer-move
   commits nothing. *)
C15_CommitsLastMove ==
    gesture.ev = "up" => gesture.committed = gesture.computed

(* C16: after pointer-up both snap locks are inactive with no timer armed
   and no ignore anchor, the preview is null and no resize is in progress;
   a pointer-move that arrives after pointer-up changes neither the preview
   nor the products and the configuration. *)
C16_CleanAfterUp ==
    /\ gesture.ended
       => /\ \A axis \in Axes : /\ ~snapLocks[axis].active
                                /\ snapLocks[axis].timer = NoNumber
                                /\ snapLocks[axis].ignoreAnchor = NoNumber
          /\ timers = {}
          /\ previewVisuals = Null
          /\ isResizing = "null"
          /\ resizeStartRef = Null
    /\ gesture.ev = "lateMove"
       => /\ gesture.ended
          /\ previewVisuals = Null
          /\ products = gesture.products
          /\ history = gesture.history

(* a pointer-move after the pointer-up of a gesture that had engaged a
   width lock and committed its preview *)
C16_Witness ==
    /\ gesture.ev = "lateMove"
    /\ gesture.committed # Null
    /\ snapLocks.w.anchor # NoNumber

(* C17: a pointer-move of a gesture in progress changes the preview of the
   tag only: the product list and the history of configurations, and with
   them the pages laid out, are as the pointer-move found them. *)
C17_MoveChangesPreviewOnly ==
    gesture.ev = "move"
        => /\ products = gesture.products
           /\ history = gesture.history
           /\ paginatedResult(products, appConfig)
                 = paginatedResult(gesture.products, gesture.history.present)

(* a pointer-move on the tag of a product whose preview shows a width other
   than the one stored with the product *)
C17_Witness ==
    /\ gesture.ev = "move"
    /\ tagOf # PREVIEW_ID
    /\ "tagWidth" \in DOMAIN previewVisuals
    /\ previewVisuals.tagWidth # CustomOf(TagProduct, "tagWidth")
    /\ currentWidth = previewVisuals.tagWidth

(* the last event was a pointer-move of a proportional resize *)
CornerMove == gesture.ev = "move" /\ isResizing = "wh"

(* C18: in a proportional resize the new width is max(3, startWidth + dx),
   the new height max(3, startHeight * ratio) and the new font scale
   max(0.5, startFontScale * ratio) with ratio = newWidth / startWidth; no
   value is snapped and no snap lock is engaged. *)
C18_Proportional ==
    CornerMove =>
        LET start == resizeStartRef
            newWidth == Max(MIN_SIZE, gesture.raw)
        IN  /\ gesture.computed.tagWidth = newWidth
            /\ gesture.computed.tagHeight
                  = Max(MIN_SIZE, Scaled(start.h, newWidth, start.w))
            /\ gesture.computed.fontScale
                  = Max(MIN_FONT_SCALE, Scaled(start.fontScale, newWidth, start.w))
            /\ previewVisuals = gesture.computed
            /\ \A axis \in Axes : ~snapLocks[axis].active
            /\ timers = {}
            /\ ~isSnapped

(* a proportional resize under the minimum width whose font scale is held at
   its minimum and whose height stays above its own *)
C18_Witness ==
    /\ CornerMove
    /\ gesture.raw < MIN_SIZE
    /\ gesture.computed.tagWidth = MIN_SIZE
    /\ gesture.computed.tagHeight > MIN_SIZE
    /\ gesture.computed.fontScale = MIN_FONT_SCALE
    /\ Scaled(resizeStartRef.fontScale, MIN_SIZE, resizeStartRef.w) < MIN_FONT_SCALE

(* C19: the callback of a snap-lock timer runs only while the tag is mounted
   and its gesture is in progress: a timer armed when the tag unmounts or
   the gesture ends is cleared. *)
C19_NoStaleCallback ==
    gesture.ev = "timer" => mounted /\ ~gesture.ended /\ isResizing # "null"

----------------------------------------------------------------------------
(* Properties of the per-item overrides *)

(* the fields a handler has ever overridden for an item *)
OverriddenFields == UNION { DOMAIN u : u \in ProductUpdates }

(* the visual settings the tag of product p is rendered with
   (part_004:184 and 190-191) *)
EffectiveVisuals(p) ==
    Spread(appConfig.visuals,
           IF "customVisuals" \in DOMAIN p THEN p.customVisuals ELSE EmptyObject)

(* C21: every visual field that was never overridden for an item has the
   current global value, in rendering and in layout: after an override of
   the width of an item, a change of the global tag height still applies to
   the item. *)
C21_OverridesLayered ==
    \A i \in 1..Len(products) :
        /\ \A f \in DOMAIN appConfig.visuals \ OverriddenFields :
              EffectiveVisuals(products[i])[f] = appConfig.visuals[f]
        /\ ItemH(products[i], appConfig) = DefaultH(appConfig)

----------------------------------------------------------------------------
(* Properties of the stored configuration *)

(* App was constructed from the slot and no handler has run since *)
JustLoaded == lastOp.op = "none"

(* the field f of the visuals stored in the slot, if it holds a plausible
   size: a positive number not beyond the threshold *)
HasValidStored(f) ==
    /\ saved.kind = "object"
    /\ "visuals" \in DOMAIN saved.parsed
    /\ f \in DOMAIN saved.parsed.visuals
    /\ saved.parsed.visuals[f] \in 1..PIXEL_THRESHOLD

(* C22: whatever the slot holds, the configuration is loaded and each of its
   fields is a valid stored value or the built-in default: a tag width or
   height that is missing, implausibly large or otherwise invalid is the
   default (10 and 7.5), a paper orientation that is missing or invalid is
   portrait. *)
C22_LoadedValid ==
    JustLoaded =>
        /\ appConfig.visuals.tagWidth =
              (IF HasValidStored("tagWidth") THEN saved.parsed.visuals.tagWidth
               ELSE DEFAULT_CONFIG.visuals.tagWidth)
        /\ appConfig.visuals.tagHeight =
              (IF HasValidStored("tagHeight") THEN saved.parsed.visuals.tagHeight
               ELSE DEFAULT_CONFIG.visuals.tagHeight)
        /\ appConfig.paperOrientation \in Orientations
        /\ saved.kind = "object" /\ "paperOrientation" \in DOMAIN saved.parsed
              /\ saved.parsed.paperOrientation \in Orientations
           => appConfig.paperOrientation = saved.parsed.paperOrientation

(* the part of C22 about implausibly large sizes alone *)
C22_LegacyPixelsReset ==
    JustLoaded =>
        /\ appConfig.visuals.tagWidth <= PIXEL_THRESHOLD
        /\ appConfig.visuals.tagHeight <= PIXEL_THRESHOLD

----------------------------------------------------------------------------
(* Properties of the reordering *)

(* prods without the product of id *)
Without(prods, id) == SelectSeq(prods, LAMBDA p : p.id # id)

(* after is before with the product S moved to the index the product T had *)
MovedTo(before, after, S, T) ==
    /\ Len(after) = Len(before)
    /\ after[FindIndex(before, T) + 1] = before[FindIndex(before, S) + 1]
    /\ Without(after, S) = Without(before, S)

(* C23: a drop of item S on another item T of the list gives the same items
   with S at the index T had and the other items in the order they were in;
   a drop whose source or target is not in the list leaves the list as it
   was. *)
C23_DropMoves ==
    /\ [][\A T \in ProductIds(products) :
            LET S == draggedProductId
            IN  onProductDrop(T) /\ S # NoNumber /\ S # T
                => IF S \in ProductIds(products)
                   THEN MovedTo(products, products', S, T)
                   ELSE products' = products]_vars
    /\ [](\A S, T \in 0..(uuid + 1) :
            S \notin ProductIds(products) \/ T \notin ProductIds(products)
                => ProductDrop(products, S, T) = products)

(* a drop that carried an item with an override over two others *)
C23_Witness ==
    /\ lastOp.op = "drop"
    /\ Len(products) >= 3
    /\ draggedProductId \in ProductIds(products)
    /\ FindIndex(products, draggedProductId)
         >= FindIndex(lastOp.products, draggedProductId) + 2
    /\ "customVisuals" \in DOMAIN products[FindIndex(products, draggedProductId) + 1]

----------------------------------------------------------------------------
(* The ignore anchor *)

(* the last pointer-move found no lock active on its axis and the nearest
   grid multiple of its raw value is M *)
FreeMoveNear(M) ==
    /\ AxisMove
    /\ gesture.free
    /\ M # NoNumber
    /\ NearestSnap(gesture.raw) = M

(* C27 as stated: after the lock at a grid multiple M is released, by the
   timer or by pulling farther than the release distance, M is the ignore
   anchor of the axis until another anchor is released or the gesture ends:
   a pointer-move with no lock active whose nearest grid multiple is M
   returns the raw value and engages no lock. *)
C27_IgnoredAfterRelease ==
    /\ isResizing \in Axes /\ ~gesture.ended /\ gesture.lastReleased # NoNumber
       => snapLocks[isResizing].ignoreAnchor = gesture.lastReleased
    /\ FreeMoveNear(gesture.lastReleased)
       => /\ gesture.reported = gesture.raw
          /\ ~snapLocks[isResizing].active

(* C27: after the lock at a grid multiple M is released by the timer, M is
   the ignore anchor of the axis until the timer of another lock fires or
   the gesture ends: a pointer-move with no lock active whose nearest grid
   multiple is M returns the raw value and engages no lock. *)
C27_IgnoredAfterTimer ==
    /\ isResizing \in Axes /\ ~gesture.ended /\ gesture.lastExpired # NoNumber
       => snapLocks[isResizing].ignoreAnchor = gesture.lastExpired
    /\ FreeMoveNear(gesture.lastExpired)
       => /\ gesture.reported = gesture.raw
          /\ ~snapLocks[isResizing].active

(* a pointer-move that comes back to the multiple the timer released and is
   left unpinned, off the multiple *)
C27_Witness ==
    /\ FreeMoveNear(gesture.lastExpired)
    /\ gesture.raw # gesture.lastExpired
    /\ gesture.reported = gesture.raw

----------------------------------------------------------------------------
(* The two stacks together *)

HistorySize(h) == Len(h.past) + Len(h.future)

(* C28: past and future together never hold more than 50 entries: undo and
   redo keep the sum of their lengths, an effective mutation leaves a sum of
   at most 50, and neither stack ever holds more than 50 entries. *)
C28_StacksBounded ==
    /\ HistorySize(history) <= 50
    /\ Len(history.past) <= 50
    /\ Len(history.future) <= 50
    /\ lastOp.op \in {"undo", "redo"} => HistorySize(history) = HistorySize(lastOp.before)
    /\ EffectiveMutation => history.future = <<>>

(* a redo that fills past to the limit again, with entries still to redo
   before it *)
C28_Witness ==
    /\ lastOp.op = "redo"
    /\ Len(lastOp.before.future) >= 2
    /\ HistorySize(lastOp.before) = 50
    /\ Len(history.past) = Len(lastOp.before.past) + 1
    /\ HistorySize(history) = 50

----------------------------------------------------------------------------
(* The capture range *)

(* raw values over a stretch of the grid, from the minimum size on *)
RawValues == MIN_SIZE..(MIN_SIZE + 4 * SNAP_INCREMENT)

OnGrid(v) == v % SNAP_INCREMENT = 0

(* applySnap on raw value raw with the locks as they are, no lock being
   active on the axis: a grid multiple comes back unless the nearest one is
   the ignore anchor, and the ignore anchor is left alone *)
CapturedOrIgnored(raw, axis) ==
    LET lock == snapLocks[axis]
        r == applySnap(raw, lock, axis, timers, isSnapped)
    IN  /\ Abs(raw - NearestSnap(raw)) < SNAP_THRESHOLD
        /\ IF NearestSnap(raw) = lock.ignoreAnchor
           THEN r.value = raw /\ ~r.lock.active
           ELSE r.value = NearestSnap(raw) /\ OnGrid(r.value) /\ r.lock.active
        /\ r.lock.ignoreAnchor = lock.ignoreAnchor

(* C29: every raw value is within the capture threshold of its nearest grid
   multiple: with no lock active on the axis applySnap returns a grid
   multiple unless the nearest multiple is the ignore anchor, and the branch
   for values outside the threshold, which resets the ignore anchor, is not
   taken. *)
C29_AlwaysInCaptureRange ==
    /\ \A axis \in Axes : ~snapLocks[axis].active
          => \A raw \in RawValues : CapturedOrIgnored(raw, axis)
    /\ AxisMove /\ gesture.free
       => /\ Abs(gesture.raw - NearestSnap(gesture.raw)) < SNAP_THRESHOLD
          /\ snapLocks[isResizing].ignoreAnchor = gesture.ignoreBefore
          /\ \/ OnGrid(gesture.reported)
             \/ NearestSnap(gesture.raw) = gesture.ignoreBefore

(* a pointer-move that found no lock, as far off the grid as the model's
   resolution has it, and was captured by the nearest multiple *)
C29_Witness ==
    /\ AxisMove /\ gesture.free
    /\ ~OnGrid(gesture.raw)
    /\ 2 * Abs(gesture.raw - NearestSnap(gesture.raw)) >= SNAP_THRESHOLD
    /\ gesture.reported = NearestSnap(gesture.raw)
    /\ snapLocks[isResizing].active

----------------------------------------------------------------------------
(* Toggling the orientation of a sheet *)

MaxToggleItems == 3     \* SpecToggle: longest product list drawn by InitToggle
MaxToggles == 2         \* SpecToggle: a sheet is toggled while past is shorter than this

(* lists of tags that fit two to a row on a landscape sheet (14 x 14) and
   of tags that fill a row of either sheet (22 x 14) *)
ToggleLists ==
    { MkProducts(s) :
        s \in UNION { [1..n -> { <<140, 140>>, <<220, 140>> }] : n \in 0..MaxToggleItems } }

(* lines 18 and 48-52 with a list of products already entered: the sheets
   of the list are toggled and the toggles undone *)
InitToggle ==
    /\ products \in ToggleLists
    /\ history = [past |-> <<>>, present |-> DEFAULT_CONFIG, future |-> <<>>]
    /\ lastOp = NoOp(history)
    /\ pc = "done"
    /\ globalIndex = 0
    /\ pageIndex = 0
    /\ resultPages = <<>>
    /\ resultOrientations = <<>>
    /\ currentPageProducts = <<>>
    /\ currentY = 0
    /\ rows = <<>>
    /\ memo = EmptyResult
    /\ run = 2
    /\ uuid = Len(products)
    /\ draggedProductId = NoNumber
    /\ saved = Absent
    /\ NoTag

NextToggle ==
    \/ Len(history.past) < MaxToggles /\ \E k \in 0..(Len(RenderedOrientations) - 1) : handlePageOrientationToggle(k)
    \/ handleUndo

SpecToggle == InitToggle /\ [][NextToggle]_vars

(* the sheets before the last handler ran *)
SheetsBefore == paginatedResult(lastOp.products, lastOp.before.present)

SheetsNow == paginatedResult(products, appConfig)

(* the last handler was the toggle of page k *)
ToggledPage(k) ==
    /\ lastOp.op = "setAppConfig"
    /\ k < Len(SheetsBefore.orientations)
    /\ lastOp.next = ToggleUpdater(lastOp.before.present, k, SheetsBefore.orientations[k + 1])

(* C30: toggling the orientation of page k changes no earlier page: with the
   same list of items, pages 0 .. k-1 hold the same items in the same
   orientations before and after the toggle. *)
C30_EarlierPagesKept ==
    \A k \in 0..Len(products) :
        ToggledPage(k) /\ products = lastOp.products
        => /\ Len(SheetsNow.pages) >= k
           /\ \A i \in 1..k :
                 /\ SheetsNow.pages[i] = SheetsBefore.pages[i]
                 /\ SheetsNow.orientations[i] = SheetsBefore.orientations[i]

(* the toggle of a page after the first one that moves items between that
   page and the pages after it *)
C30_Witness ==
    \E k \in 1..Len(products) :
        /\ ToggledPage(k)
        /\ products = lastOp.products
        /\ SheetsNow.pages # SheetsBefore.pages
        /\ SheetsNow.pages[k + 1] # SheetsBefore.pages[k + 1]

====
